---- MODULE Spec2Model ----
(***************************************************************************)
(* Knowledge-graph engine of the regulation-aware RAG system:              *)
(* GraphIngestion (extraction, merge, save/load), GraphRetrieval (load,    *)
(* traversal) and the Flask handlers of api_server.py that drive them.     *)
(*                                                                         *)
(* Python values are modelled as tagged records so that isinstance tests   *)
(* and truthiness are decided as the interpreter decides them.  A dict is  *)
(* a function from its keys to tagged values; the key order of a dict is   *)
(* not modelled.  The node and edge insertion orders of the networkx       *)
(* DiGraph are modelled (node_order, edge_order).                          *)
(***************************************************************************)
EXTENDS Integers, Sequences, FiniteSets, TLC

VARIABLES
    graph,            \* graph_ingestion.graph, the shared in-memory DiGraph
    prev,             \* the graph before the latest add_to_graph call
    last_call,        \* arguments of the latest add_to_graph call
    ingests,          \* number of add_to_graph calls / handler calls so far
    pkl_file,         \* graph_db/knowledge_graph.pkl
    json_file,        \* graph_db/knowledge_graph.json
    retrieval_graph,  \* GraphRetrieval.graph of the latest query system
    traversal,        \* latest traverse_from_entity call and its result
    response,         \* latest HTTP handler and its status code
    pc,               \* position of each concurrent request thread
    request,          \* extraction result each request thread merges
    graph_copy,       \* save_graph's local graph_copy of each thread
    graph_ingestion,  \* the module global of api_server.py: "GraphIngestion" or "None"
    result            \* latest retrieval, query or extractor call and what it returned

vars == <<graph, prev, last_call, ingests, pkl_file, json_file,
          retrieval_graph, traversal, response, pc, request, graph_copy,
          graph_ingestion, result>>

(***************************************************************************)
(* Bounds of the model.                                                    *)
(***************************************************************************)
MaxIngests == 3

MaxRequests == 2

MaxDepth == 2

(***************************************************************************)
(* Python values.                                                          *)
(***************************************************************************)
Str(s) == [kind |-> "str", s |-> s, elems |-> {}, items |-> <<>>]

SetV(S) == [kind |-> "set", s |-> "", elems |-> S, items |-> <<>>]

ListV(q) == [kind |-> "list", s |-> "", elems |-> {}, items |-> q]

\* bool(v): the empty string, the empty set and the empty list are falsy.
Truthy(v) ==
    CASE v.kind = "str" -> v.s # ""
      [] v.kind = "set" -> v.elems # {}
      [] v.kind = "list" -> v.items # <<>>

EmptyDict == [k \in {} |-> Str("")]

\* d.get(key, default)
Get(d, key, default) == IF key \in DOMAIN d THEN d[key] ELSE default

\* d[key] = value
Put(d, key, value) == [k \in DOMAIN d \cup {key} |-> IF k = key THEN value ELSE d[k]]

Range(q) == {q[i] : i \in 1..Len(q)}

\* a set-valued or list-valued attribute read as a set
AsSet(v) == IF v.kind = "list" THEN Range(v.items) ELSE v.elems

(***************************************************************************)
(* Python str, read character by character: lower(), the in operator on    *)
(* strings, split().  Spell gives the characters of every string the       *)
(* retrieval side reads.                                                   *)
(***************************************************************************)
\* TLA+ strings cannot hold the character U+0060; it is written as this token
Backquote == "(backquote)"

Spell ==
    "title" :> <<"t","i","t","l","e">>
    @@ "description" :> <<"d","e","s","c","r","i","p","t","i","o","n">>
    @@ "text" :> <<"t","e","x","t">>
    @@ "condition" :> <<"c","o","n","d","i","t","i","o","n">>
    @@ "section" :> <<"s","e","c","t","i","o","n">>
    @@ "source_file" :> <<"s","o","u","r","c","e","_","f","i","l","e">>
    @@ "section_number" :> <<"s","e","c","t","i","o","n","_","n","u","m","b","e","r">>
    @@ "content" :> <<"c","o","n","t","e","n","t">>
    @@ "requirement_number" :> <<"r","e","q","u","i","r","e","m","e","n","t","_","n","u",
              "m","b","e","r">>
    @@ "relationship_types" :> <<"r","e","l","a","t","i","o","n","s","h","i","p","_","t",
              "y","p","e","s">>
    @@ "4" :> <<"4">>
    @@ "entity_name" :> <<"e","n","t","i","t","y","_","n","a","m","e">>
    @@ "entity_type" :> <<"e","n","t","i","t","y","_","t","y","p","e">>
    @@ "" :> <<>>
    @@ "file1.txt" :> <<"f","i","l","e","1",".","t","x","t">>
    @@ "file2.txt" :> <<"f","i","l","e","2",".","t","x","t">>
    @@ "Section 4: Data Handling" :> <<"S","e","c","t","i","o","n"," ","4",":"," ","D","a",
              "t","a"," ","H","a","n","d","l","i","n","g">>
    @@ "Data Handling" :> <<"D","a","t","a"," ","H","a","n","d","l","i","n","g">>
    @@ "4.1" :> <<"4",".","1">>
    @@ "Approval from DPO is required." :> <<"A","p","p","r","o","v","a","l"," ","f","r",
              "o","m"," ","D","P","O"," ","i","s"," ","r","e","q","u","i","r","e","d",
              ".">>
    @@ "DPO approval needed." :> <<"D","P","O"," ","a","p","p","r","o","v","a","l"," ","n",
              "e","e","d","e","d",".">>
    @@ "4.2" :> <<"4",".","2">>
    @@ "DPO approval must be logged." :> <<"D","P","O"," ","a","p","p","r","o","v","a","l",
              " ","m","u","s","t"," ","b","e"," ","l","o","g","g","e","d",".">>
    @@ "4.1 - Approvals" :> <<"4",".","1"," ","-"," ","A","p","p","r","o","v","a","l","s">>
    @@ "Approvals" :> <<"A","p","p","r","o","v","a","l","s">>
    @@ "- Approvals" :> <<"-"," ","A","p","p","r","o","v","a","l","s">>
    @@ "req_4_1" :> <<"r","e","q","_","4","_","1">>
    @@ "Requirement" :> <<"R","e","q","u","i","r","e","m","e","n","t">>
    @@ "Approval rule" :> <<"A","p","p","r","o","v","a","l"," ","r","u","l","e">>
    @@ "DPO sign-off" :> <<"D","P","O"," ","s","i","g","n","-","o","f","f">>
    @@ "req_dpo_approval" :> <<"r","e","q","_","d","p","o","_","a","p","p","r","o","v","a",
              "l">>
    @@ "REQUIRES" :> <<"R","E","Q","U","I","R","E","S">>
    @@ "external storage" :> <<"e","x","t","e","r","n","a","l"," ","s","t","o","r","a","g",
              "e">>
    @@ "Concept" :> <<"C","o","n","c","e","p","t">>
    @@ "Other" :> <<"O","t","h","e","r">>
    @@ "changed" :> <<"c","h","a","n","g","e","d">>
    @@ "LACKS" :> <<"L","A","C","K","S">>
    @@ "IS_NOT" :> <<"I","S","_","N","O","T">>
    @@ "theft" :> <<"t","h","e","f","t">>
    @@ "Crime" :> <<"C","r","i","m","e">>
    @@ "Theft" :> <<"T","h","e","f","t">>
    @@ "Taking property" :> <<"T","a","k","i","n","g"," ","p","r","o","p","e","r","t","y">>
    @@ "intent" :> <<"i","n","t","e","n","t">>
    @@ "section_4" :> <<"s","e","c","t","i","o","n","_","4">>
    @@ "section_4_1" :> <<"s","e","c","t","i","o","n","_","4","_","1">>
    @@ "Section 4" :> <<"S","e","c","t","i","o","n"," ","4">>
    @@ "Section 4.1" :> <<"S","e","c","t","i","o","n"," ","4",".","1">>
    @@ "req_4_2" :> <<"r","e","q","_","4","_","2">>
    @@ "Requirement 4.1" :> <<"R","e","q","u","i","r","e","m","e","n","t"," ","4",".","1">>
    @@ "Requirement 4.2" :> <<"R","e","q","u","i","r","e","m","e","n","t"," ","4",".","2">>
    @@ "Section" :> <<"S","e","c","t","i","o","n">>
    @@ "DPO Approval Required" :> <<"D","P","O"," ","A","p","p","r","o","v","a","l"," ",
              "R","e","q","u","i","r","e","d">>
    @@ "CONTAINS" :> <<"C","O","N","T","A","I","N","S">>
    @@ "source_files" :> <<"s","o","u","r","c","e","_","f","i","l","e","s">>
    @@ "Unknown" :> <<"U","n","k","n","o","w","n">>
    @@ "relationship_type" :> <<"r","e","l","a","t","i","o","n","s","h","i","p","_","t",
              "y","p","e">>
    @@ "RELATES_TO" :> <<"R","E","L","A","T","E","S","_","T","O">>
    @@ "fraud" :> <<"f","r","a","u","d">>
    @@ "arson" :> <<"a","r","s","o","n">>
    @@ "assault" :> <<"a","s","s","a","u","l","t">>
    @@ "bribery" :> <<"b","r","i","b","e","r","y">>
    @@ "burglary" :> <<"b","u","r","g","l","a","r","y">>
    @@ "forgery" :> <<"f","o","r","g","e","r","y">>
    @@ "perjury" :> <<"p","e","r","j","u","r","y">>
    @@ "robbery" :> <<"r","o","b","b","e","r","y">>
    @@ "extortion" :> <<"e","x","t","o","r","t","i","o","n">>
    @@ "trespass" :> <<"t","r","e","s","p","a","s","s">>
    @@ "unknown_entity" :> <<"u","n","k","n","o","w","n","_","e","n","t","i","t","y">>
    @@ "approval" :> <<"a","p","p","r","o","v","a","l">>
    @@ "spoofing" :> <<"s","p","o","o","f","i","n","g">>
    @@ "THEFT" :> <<"T","H","E","F","T">>
    @@ "Is it theft?" :> <<"I","s"," ","i","t"," ","t","h","e","f","t","?">>
    @@ "DPO approval" :> <<"D","P","O"," ","a","p","p","r","o","v","a","l">>
    @@ "encryption" :> <<"e","n","c","r","y","p","t","i","o","n">>
    @@ "steal" :> <<"s","t","e","a","l">>
    @@ "mobile" :> <<"m","o","b","i","l","e">>
    @@ "phone" :> <<"p","h","o","n","e">>
    @@ "property" :> <<"p","r","o","p","e","r","t","y">>
    @@ "accident" :> <<"a","c","c","i","d","e","n","t">>
    @@ "accidental" :> <<"a","c","c","i","d","e","n","t","a","l">>
    @@ "intentional" :> <<"i","n","t","e","n","t","i","o","n","a","l">>
    @@ "crime" :> <<"c","r","i","m","e">>
    @@ "criminal" :> <<"c","r","i","m","i","n","a","l">>
    @@ "illegal" :> <<"i","l","l","e","g","a","l">>
    @@ "illegally" :> <<"i","l","l","e","g","a","l","l","y">>
    @@ "require" :> <<"r","e","q","u","i","r","e">>
    @@ "required" :> <<"r","e","q","u","i","r","e","d">>
    @@ "must" :> <<"m","u","s","t">>
    @@ "should" :> <<"s","h","o","u","l","d">>
    @@ "consent" :> <<"c","o","n","s","e","n","t">>
    @@ "permission" :> <<"p","e","r","m","i","s","s","i","o","n">>
    @@ "data" :> <<"d","a","t","a">>
    @@ "storage" :> <<"s","t","o","r","a","g","e">>
    @@ "external" :> <<"e","x","t","e","r","n","a","l">>
    @@ "server" :> <<"s","e","r","v","e","r">>
    @@ "dpo" :> <<"d","p","o">>
    @@ "data protection" :> <<"d","a","t","a"," ","p","r","o","t","e","c","t","i","o","n">>
    @@ "\n=== " :> <<"\n","=","=","="," ">>
    @@ ": " :> <<":"," ">>
    @@ " ===\n" :> <<" ","=","=","=","\n">>
    @@ "Description: " :> <<"D","e","s","c","r","i","p","t","i","o","n",":"," ">>
    @@ "\n" :> <<"\n">>
    @@ "Relationships (requires/contains):" :> <<"R","e","l","a","t","i","o","n","s","h",
              "i","p","s"," ","(","r","e","q","u","i","r","e","s","/","c","o","n","t",
              "a","i","n","s",")",":">>
    @@ "  - " :> <<" "," ","-"," ">>
    @@ " " :> <<" ">>
    @@ "Related from:" :> <<"R","e","l","a","t","e","d"," ","f","r","o","m",":">>
    @@ "Related entities (2-hop):" :> <<"R","e","l","a","t","e","d"," ","e","n","t","i",
              "t","i","e","s"," ","(","2","-","h","o","p",")",":">>
    @@ " → " :> <<" ","→"," ">>
    @@ " (" :> <<" ","(">>
    @@ ")" :> <<")">>
    @@ "[" :> <<"[">>
    @@ "]" :> <<"]">>
    @@ "'" :> <<"'">>
    @@ ", " :> <<","," ">>
    @@ "reverse_REQUIRES" :> <<"r","e","v","e","r","s","e","_","R","E","Q","U","I","R","E",
              "S">>
    @@ "reverse_LACKS" :> <<"r","e","v","e","r","s","e","_","L","A","C","K","S">>
    @@ "reverse_IS_NOT" :> <<"r","e","v","e","r","s","e","_","I","S","_","N","O","T">>
    @@ "reverse_CONTAINS" :> <<"r","e","v","e","r","s","e","_","C","O","N","T","A","I","N",
              "S">>
    @@ "reverse_RELATES_TO" :> <<"r","e","v","e","r","s","e","_","R","E","L","A","T","E",
              "S","_","T","O">>
    @@ "no" :> <<"n","o">>
    @@ "entities" :> <<"e","n","t","i","t","i","e","s">>
    @@ "found" :> <<"f","o","u","n","d">>
    @@ "No, it is not theft without intent." :> <<"N","o",","," ","i","t"," ","i","s"," ",
              "n","o","t"," ","t","h","e","f","t"," ","w","i","t","h","o","u","t"," ",
              "i","n","t","e","n","t",".">>
    @@ "Conditional on DPO approval." :> <<"C","o","n","d","i","t","i","o","n","a","l"," ",
              "o","n"," ","D","P","O"," ","a","p","p","r","o","v","a","l",".">>
    @@ "Unable to parse governance decision. The AI response was not in valid JSON format. Manual review required." :> <<
              "U","n","a","b","l","e"," ","t","o"," ","p","a","r","s","e"," ","g","o",
              "v","e","r","n","a","n","c","e"," ","d","e","c","i","s","i","o","n",".",
              " ","T","h","e"," ","A","I"," ","r","e","s","p","o","n","s","e"," ","w",
              "a","s"," ","n","o","t"," ","i","n"," ","v","a","l","i","d"," ","J","S",
              "O","N"," ","f","o","r","m","a","t","."," ","M","a","n","u","a","l"," ",
              "r","e","v","i","e","w"," ","r","e","q","u","i","r","e","d",".">>
    @@ "Both text_generation and chat_completion failed. Text error: " :> <<"B","o","t",
              "h"," ","t","e","x","t","_","g","e","n","e","r","a","t","i","o","n"," ",
              "a","n","d"," ","c","h","a","t","_","c","o","m","p","l","e","t","i","o",
              "n"," ","f","a","i","l","e","d","."," ","T","e","x","t"," ","e","r","r",
              "o","r",":"," ">>
    @@ "ConnectionError" :> <<"C","o","n","n","e","c","t","i","o","n","E","r","r","o","r">>
    @@ "service unreachable" :> <<"s","e","r","v","i","c","e"," ","u","n","r","e","a","c",
              "h","a","b","l","e">>
    @@ ". Chat error: " :> <<"."," ","C","h","a","t"," ","e","r","r","o","r",":"," ">>
    @@ "System error during evaluation: " :> <<"S","y","s","t","e","m"," ","e","r","r","o",
              "r"," ","d","u","r","i","n","g"," ","e","v","a","l","u","a","t","i","o",
              "n",":"," ">>
    @@ ". Please retry or contact system administrator." :> <<"."," ","P","l","e","a","s",
              "e"," ","r","e","t","r","y"," ","o","r"," ","c","o","n","t","a","c","t",
              " ","s","y","s","t","e","m"," ","a","d","m","i","n","i","s","t","r","a",
              "t","o","r",".">>
    @@ "not a crime" :> <<"n","o","t"," ","a"," ","c","r","i","m","e">>
    @@ "not crime" :> <<"n","o","t"," ","c","r","i","m","e">>
    @@ "not illegal" :> <<"n","o","t"," ","i","l","l","e","g","a","l">>
    @@ "not violate" :> <<"n","o","t"," ","v","i","o","l","a","t","e">>
    @@ "no, it is not" :> <<"n","o",","," ","i","t"," ","i","s"," ","n","o","t">>
    @@ "no, this is not" :> <<"n","o",","," ","t","h","i","s"," ","i","s"," ","n","o","t">>
    @@ "is a crime" :> <<"i","s"," ","a"," ","c","r","i","m","e">>
    @@ "is illegal" :> <<"i","s"," ","i","l","l","e","g","a","l">>
    @@ "is violate" :> <<"i","s"," ","v","i","o","l","a","t","e">>
    @@ "yes, it is" :> <<"y","e","s",","," ","i","t"," ","i","s">>
    @@ "yes, this is" :> <<"y","e","s",","," ","t","h","i","s"," ","i","s">>
    @@ "conditional" :> <<"c","o","n","d","i","t","i","o","n","a","l">>
    @@ "depends" :> <<"d","e","p","e","n","d","s">>
    @@ "may be" :> <<"m","a","y"," ","b","e">>
    @@ "Encryption" :> <<"E","n","c","r","y","p","t","i","o","n">>
    @@ "Storage REQUIRES encryption" :> <<"S","t","o","r","a","g","e"," ","R","E","Q","U",
              "I","R","E","S"," ","e","n","c","r","y","p","t","i","o","n">>
    @@ "{\"entities\": [], \"relationships\": []}" :> <<"{","\"","e","n","t","i","t","i",
              "e","s","\"",":"," ","[","]",","," ","\"","r","e","l","a","t","i","o","n",
              "s","h","i","p","s","\"",":"," ","[","]","}">>
    @@ "Here is the JSON: {\"entities\": [{\"id\": \"theft\", \"type\": \"Crime\", \"name\": \"Theft\"}], \"relationships\": []} Done." :> <<
              "H","e","r","e"," ","i","s"," ","t","h","e"," ","J","S","O","N",":"," ",
              "{","\"","e","n","t","i","t","i","e","s","\"",":"," ","[","{","\"","i",
              "d","\"",":"," ","\"","t","h","e","f","t","\"",","," ","\"","t","y","p",
              "e","\"",":"," ","\"","C","r","i","m","e","\"",","," ","\"","n","a","m",
              "e","\"",":"," ","\"","T","h","e","f","t","\"","}","]",","," ","\"","r",
              "e","l","a","t","i","o","n","s","h","i","p","s","\"",":"," ","[","]","}",
              " ","D","o","n","e",".">>
    @@ "  {\"entities\": [{\"id\": \"theft\"}, {\"id\": \"intent\"}], \"relationships\": [{\"source\": \"theft\", \"target\": \"intent\", \"type\": \"REQUIRES\"}]}\n" :> <<
              " "," ","{","\"","e","n","t","i","t","i","e","s","\"",":"," ","[","{",
              "\"","i","d","\"",":"," ","\"","t","h","e","f","t","\"","}",","," ","{",
              "\"","i","d","\"",":"," ","\"","i","n","t","e","n","t","\"","}","]",",",
              " ","\"","r","e","l","a","t","i","o","n","s","h","i","p","s","\"",":"," ",
              "[","{","\"","s","o","u","r","c","e","\"",":"," ","\"","t","h","e","f",
              "t","\"",","," ","\"","t","a","r","g","e","t","\"",":"," ","\"","i","n",
              "t","e","n","t","\"",","," ","\"","t","y","p","e","\"",":"," ","\"","R",
              "E","Q","U","I","R","E","S","\"","}","]","}","\n">>
    @@ "I cannot help with that." :> <<"I"," ","c","a","n","n","o","t"," ","h","e","l","p",
              " ","w","i","t","h"," ","t","h","a","t",".">>
    @@ "{\"entities\": [{\"id\": \"theft\"" :> <<"{","\"","e","n","t","i","t","i","e","s",
              "\"",":"," ","[","{","\"","i","d","\"",":"," ","\"","t","h","e","f","t",
              "\"">>
    @@ "{\"entities\": [}" :> <<"{","\"","e","n","t","i","t","i","e","s","\"",":"," ","[",
              "}">>
    @@ "} {" :> <<"}"," ","{">>
    @@ "{\"entities\": [{\"id\": \"theft\", \"type\": \"Crime\", \"name\": \"Theft\"}], \"relationships\": []} and {}" :> <<
              "{","\"","e","n","t","i","t","i","e","s","\"",":"," ","[","{","\"","i",
              "d","\"",":"," ","\"","t","h","e","f","t","\"",","," ","\"","t","y","p",
              "e","\"",":"," ","\"","C","r","i","m","e","\"",","," ","\"","n","a","m",
              "e","\"",":"," ","\"","T","h","e","f","t","\"","}","]",","," ","\"","r",
              "e","l","a","t","i","o","n","s","h","i","p","s","\"",":"," ","[","]","}",
              " ","a","n","d"," ","{","}">>
    @@ "{\"entities\": [{\"id\": \"theft\", \"type\": \"Crime\", \"name\": \"Theft\"}], \"relationships\": []}" :> <<
              "{","\"","e","n","t","i","t","i","e","s","\"",":"," ","[","{","\"","i",
              "d","\"",":"," ","\"","t","h","e","f","t","\"",","," ","\"","t","y","p",
              "e","\"",":"," ","\"","C","r","i","m","e","\"",","," ","\"","n","a","m",
              "e","\"",":"," ","\"","T","h","e","f","t","\"","}","]",","," ","\"","r",
              "e","l","a","t","i","o","n","s","h","i","p","s","\"",":"," ","[","]","}">>
    @@ "{\"entities\": [{\"id\": \"theft\"}, {\"id\": \"intent\"}], \"relationships\": [{\"source\": \"theft\", \"target\": \"intent\", \"type\": \"REQUIRES\"}]}" :> <<
              "{","\"","e","n","t","i","t","i","e","s","\"",":"," ","[","{","\"","i",
              "d","\"",":"," ","\"","t","h","e","f","t","\"","}",","," ","{","\"","i",
              "d","\"",":"," ","\"","i","n","t","e","n","t","\"","}","]",","," ","\"",
              "r","e","l","a","t","i","o","n","s","h","i","p","s","\"",":"," ","[","{",
              "\"","s","o","u","r","c","e","\"",":"," ","\"","t","h","e","f","t","\"",
              ","," ","\"","t","a","r","g","e","t","\"",":"," ","\"","i","n","t","e",
              "n","t","\"",","," ","\"","t","y","p","e","\"",":"," ","\"","R","E","Q",
              "U","I","R","E","S","\"","}","]","}">>
    @@ "{" :> <<"{">>
    @@ "}" :> <<"}">>
    @@ "json" :> <<"j","s","o","n">>
    @@ "Here is the JSON: " :> <<"H","e","r","e"," ","i","s"," ","t","h","e"," ","J","S",
              "O","N",":"," ">>
    @@ " Done." :> <<" ","D","o","n","e",".">>
    @@ "  " :> <<" "," ">>
    @@ " and {}" :> <<" ","a","n","d"," ","{","}">>
    @@ "penal_code" :> <<"p","e","n","a","l","_","c","o","d","e">>
    @@ "punishment" :> <<"p","u","n","i","s","h","m","e","n","t">>
    @@ "taking property" :> <<"t","a","k","i","n","g"," ","p","r","o","p","e","r","t","y">>
    @@ "entering property" :> <<"e","n","t","e","r","i","n","g"," ","p","r","o","p","e",
              "r","t","y">>
    @@ "a forged property deed" :> <<"a"," ","f","o","r","g","e","d"," ","p","r","o","p",
              "e","r","t","y"," ","d","e","e","d">>
    @@ "lying about property" :> <<"l","y","i","n","g"," ","a","b","o","u","t"," ","p","r",
              "o","p","e","r","t","y">>
    @@ "property taken by force" :> <<"p","r","o","p","e","r","t","y"," ","t","a","k","e",
              "n"," ","b","y"," ","f","o","r","c","e">>
    @@ "a crime property owners fear" :> <<"a"," ","c","r","i","m","e"," ","p","r","o","p",
              "e","r","t","y"," ","o","w","n","e","r","s"," ","f","e","a","r">>
    @@ "a crime property owners report" :> <<"a"," ","c","r","i","m","e"," ","p","r","o",
              "p","e","r","t","y"," ","o","w","n","e","r","s"," ","r","e","p","o","r",
              "t">>
    @@ "Crime property" :> <<"C","r","i","m","e"," ","p","r","o","p","e","r","t","y">>
    @@ "crime property" :> <<"c","r","i","m","e"," ","p","r","o","p","e","r","t","y">>
    @@ "(fence)" :> <<Backquote, Backquote, Backquote>>

Chars(s) == Spell[s]

UpperCase ==
    <<"A","B","C","D","E","F","G","H","I","J","K","L","M",
      "N","O","P","Q","R","S","T","U","V","W","X","Y","Z">>

LowerCase ==
    <<"a","b","c","d","e","f","g","h","i","j","k","l","m",
      "n","o","p","q","r","s","t","u","v","w","x","y","z">>

LowerChar(c) ==
    IF \E i \in 1..Len(UpperCase) : UpperCase[i] = c
    THEN LowerCase[CHOOSE i \in 1..Len(UpperCase) : UpperCase[i] = c]
    ELSE c

\* s.lower()
lower(cs) == [i \in 1..Len(cs) |-> LowerChar(cs[i])]

\* the lower-case characters of every spelled string, computed once
LowerSpell == [s \in DOMAIN Spell |-> lower(Spell[s])]

Lowered(s) == LowerSpell[s]

\* needle in hay
Contains(hay, needle) ==
    \E i \in 0..(Len(hay) - Len(needle)) : SubSeq(hay, i + 1, i + Len(needle)) = needle

(***************************************************************************)
(* networkx.DiGraph: nodes and edges with attribute dicts, in insertion    *)
(* order.                                                                  *)
(***************************************************************************)
EmptyGraph == [node_order |-> <<>>, node |-> <<>>, edge_order |-> <<>>, edge |-> <<>>]

has_node(g, n) == n \in DOMAIN g.node

has_edge(g, u, v) == <<u, v>> \in DOMAIN g.edge

\* G.add_node(n, **props) for a node that is not in the graph
add_node(g, n, props) ==
    [g EXCEPT !.node_order = Append(@, n),
              !.node = [x \in DOMAIN g.node \cup {n} |-> IF x = n THEN props ELSE g.node[x]]]

\* add_edge creates a missing endpoint with an empty attribute dict
ensure_node(g, n) == IF has_node(g, n) THEN g ELSE add_node(g, n, EmptyDict)

\* G.add_edge(u, v, **props) for an edge that is not in the graph
add_edge(g, u, v, props) ==
    LET g2 == ensure_node(ensure_node(g, u), v)
    IN  [g2 EXCEPT !.edge_order = Append(@, <<u, v>>),
                   !.edge = [e \in DOMAIN g2.edge \cup {<<u, v>>} |->
                                IF e = <<u, v>> THEN props ELSE g2.edge[e]]]

\* G.successors(n) and G.predecessors(n), in adjacency order
RECURSIVE SelectTargets(_, _)
SelectTargets(q, n) ==
    IF q = <<>> THEN <<>>
    ELSE IF Head(q)[1] = n THEN <<Head(q)[2]>> \o SelectTargets(Tail(q), n)
         ELSE SelectTargets(Tail(q), n)

RECURSIVE SelectSources(_, _)
SelectSources(q, n) ==
    IF q = <<>> THEN <<>>
    ELSE IF Head(q)[2] = n THEN <<Head(q)[1]>> \o SelectSources(Tail(q), n)
         ELSE SelectSources(Tail(q), n)

successors(g, n) == SelectTargets(g.edge_order, n)

predecessors(g, n) == SelectSources(g.edge_order, n)

(***************************************************************************)
(* Inputs.  A line of a text chunk is given with what the regular          *)
(* expressions of extract_entities_rule_based find in it: section_num is   *)
(* group(1) or group(2) of the section pattern ("" when it does not        *)
(* match), title is group(1) of the title pattern, req_num and req_text    *)
(* are the groups of the requirement pattern, and keywords are the         *)
(* keywords that occur in req_text.lower().                                *)
(***************************************************************************)
SourceFiles == {"file1.txt", "file2.txt"}

LineSection4 ==
    [line |-> "Section 4: Data Handling", section_num |-> "4", title |-> "Data Handling",
     req_num |-> "", req_text |-> "", keywords |-> {}]

LineBlank ==
    [line |-> "", section_num |-> "", title |-> "", req_num |-> "", req_text |-> "",
     keywords |-> {}]

LineReq41 ==
    [line |-> "4.1 Approval from DPO is required.", section_num |-> "", title |-> "",
     req_num |-> "4.1", req_text |-> "Approval from DPO is required.",
     keywords |-> {"require", "approval", "dpo"}]

LineReq41Short ==
    [line |-> "4.1 DPO approval needed.", section_num |-> "", title |-> "",
     req_num |-> "4.1", req_text |-> "DPO approval needed.",
     keywords |-> {"approval", "dpo"}]

LineReq42 ==
    [line |-> "4.2 DPO approval must be logged.", section_num |-> "", title |-> "",
     req_num |-> "4.2", req_text |-> "DPO approval must be logged.",
     keywords |-> {"must", "approval", "dpo"}]

\* "4.1 - Approvals" matches the section pattern and the requirement pattern
LineDash41 ==
    [line |-> "4.1 - Approvals", section_num |-> "4.1", title |-> "Approvals",
     req_num |-> "4.1", req_text |-> "- Approvals", keywords |-> {"approval"}]

\* Text chunks handed to the rule-based extractor
Chunks ==
    << <<LineReq41>>,
       <<LineSection4, LineBlank, LineReq41, LineReq42>>,
       <<LineReq41Short>>,
       <<LineDash41, LineReq42>>,
       <<LineReq42>> >>

\* Results the LLM-backed extractor returns (parsed JSON objects)
LlmResults ==
    << [entities |->
           << [id |-> "req_4_1", type |-> "Requirement", name |-> "Approval rule",
               properties |-> [description |-> Str("DPO sign-off"), text |-> Str("")]],
              [id |-> "req_dpo_approval"] >>,
        relationships |->
           << [source |-> "req_4_1", target |-> "req_dpo_approval", type |-> "REQUIRES",
               properties |-> [condition |-> Str("external storage")]] >>],
       [entities |->
           << [id |-> "req_4_1", type |-> "Concept", name |-> "Other",
               properties |-> [description |-> Str("changed"), section |-> Str("4")]] >>,
        relationships |->
           << [source |-> "req_4_1", target |-> "req_dpo_approval", type |-> "LACKS",
               properties |-> EmptyDict],
              [source |-> "req_4_1", target |-> "req_dpo_approval", type |-> "IS_NOT",
               properties |-> EmptyDict] >>],
       [entities |-> <<>>,
        relationships |->
           << [source |-> "theft", target |-> "req_4_1"],
              [source |-> "theft", type |-> "REQUIRES"] >>],
       [entities |->
           << [id |-> "theft", type |-> "Crime", name |-> "Theft",
               properties |-> [description |-> Str("Taking property")]],
              [type |-> "Crime", name |-> "Unnamed"] >>,
        relationships |->
           << [source |-> "theft", target |-> "intent", type |-> "REQUIRES",
               properties |-> EmptyDict] >>] >>

(***************************************************************************)
(* GraphIngestion.extract_entities_rule_based                              *)
(***************************************************************************)
\* num.replace('.', '_') inside the id templates
Underscored(num) ==
    CASE num = "4" -> "4"
      [] num = "4.1" -> "4_1"
      [] num = "4.2" -> "4_2"

SectionId(num) ==
    CASE Underscored(num) = "4" -> "section_4"
      [] Underscored(num) = "4_1" -> "section_4_1"
      [] Underscored(num) = "4_2" -> "section_4_2"

SectionName(num) ==
    CASE num = "4" -> "Section 4"
      [] num = "4.1" -> "Section 4.1"
      [] num = "4.2" -> "Section 4.2"

ReqId(num) ==
    CASE Underscored(num) = "4" -> "req_4"
      [] Underscored(num) = "4_1" -> "req_4_1"
      [] Underscored(num) = "4_2" -> "req_4_2"

ReqName(num) ==
    CASE num = "4" -> "Requirement 4"
      [] num = "4.1" -> "Requirement 4.1"
      [] num = "4.2" -> "Requirement 4.2"

\* the section branch of the loop body
SectionEntities(ln, source_file) ==
    IF ln.section_num = "" THEN <<>>
    ELSE << [id |-> SectionId(ln.section_num), type |-> "Section",
             name |-> SectionName(ln.section_num),
             properties |->
                [section_number |-> Str(ln.section_num),
                 title |-> Str(IF ln.title # "" THEN ln.title
                               ELSE SectionName(ln.section_num)),
                 source_file |-> Str(source_file),
                 content |-> Str(ln.line)]] >>

\* the approval branch is reached only under "require" or "must"
SynthesizesApproval(ln) ==
    /\ ("require" \in ln.keywords \/ "must" \in ln.keywords)
    /\ "approval" \in ln.keywords
    /\ "dpo" \in ln.keywords

\* the requirement branch of the loop body: entities
RequirementEntities(ln, source_file) ==
    IF ln.req_num = "" THEN <<>>
    ELSE << [id |-> ReqId(ln.req_num), type |-> "Requirement",
             name |-> ReqName(ln.req_num),
             properties |->
                [requirement_number |-> Str(ln.req_num),
                 text |-> Str(ln.req_text),
                 source_file |-> Str(source_file)]] >>
         \o (IF SynthesizesApproval(ln)
             THEN << [id |-> "req_dpo_approval", type |-> "Requirement",
                      name |-> "DPO Approval Required",
                      properties |-> [source_file |-> Str(source_file)]] >>
             ELSE <<>>)

\* the requirement branch of the loop body: relationships
RequirementRelationships(ln, current_section) ==
    IF ln.req_num = "" THEN <<>>
    ELSE (IF current_section # ""
          THEN << [source |-> current_section, target |-> ReqId(ln.req_num),
                   type |-> "CONTAINS", properties |-> EmptyDict] >>
          ELSE <<>>)
         \o (IF SynthesizesApproval(ln)
             THEN << [source |-> ReqId(ln.req_num), target |-> "req_dpo_approval",
                      type |-> "REQUIRES", properties |-> EmptyDict] >>
             ELSE <<>>)

RECURSIVE ExtractLines(_, _, _, _)
ExtractLines(lines, source_file, current_section, acc) ==
    IF lines = <<>> THEN acc
    ELSE LET ln == Head(lines)
             section == IF ln.section_num # "" THEN SectionId(ln.section_num)
                        ELSE current_section
         IN  IF ln.line = "" THEN ExtractLines(Tail(lines), source_file, current_section, acc)
             ELSE ExtractLines(Tail(lines), source_file, section,
                    [entities |-> acc.entities \o SectionEntities(ln, source_file)
                                      \o RequirementEntities(ln, source_file),
                     relationships |-> acc.relationships
                                      \o RequirementRelationships(ln, section)])

extract_entities_rule_based(text_chunk, source_file) ==
    ExtractLines(text_chunk, source_file, "", [entities |-> <<>>, relationships |-> <<>>])

(***************************************************************************)
(* GraphIngestion.add_to_graph                                             *)
(***************************************************************************)
\* entity.get("properties", {})
Properties(item) == IF "properties" \in DOMAIN item THEN item.properties ELSE EmptyDict

\* a merge that lets the later value win
MergePropertiesLastWins(existing_props, properties) ==
    [key \in DOMAIN existing_props \cup DOMAIN properties |->
        IF key \in DOMAIN properties THEN properties[key] ELSE existing_props[key]]

\* the loop of lines 239-241: fill the keys that are absent or falsy
MergeProperties(existing_props, properties) ==
    [key \in DOMAIN existing_props \cup DOMAIN properties |->
        IF key \in DOMAIN properties
           /\ (key \notin DOMAIN existing_props \/ ~Truthy(existing_props[key]))
        THEN properties[key]
        ELSE existing_props[key]]

\* source_files rebound to the latest source instead of extended
AddSourceFileRebound(existing_props, source_file) ==
    Put(existing_props, "source_files", SetV({source_file}))

\* lines 242-245: source_files of an existing node
AddSourceFile(existing_props, source_file) ==
    LET current == Get(existing_props, "source_files", SetV({}))
        as_set == IF current.kind = "str" THEN SetV({current.s}) ELSE current
    IN  Put(existing_props, "source_files", SetV(as_set.elems \cup {source_file}))

UpdateNode(g, node_id, entity, source_file) ==
    [g EXCEPT !.node[node_id] =
        AddSourceFile(MergeProperties(@, Properties(entity)), source_file)]

\* lines 248-251: the attribute dict of a new node
NewNodeProps(entity, node_id, source_file) ==
    LET props == Properties(entity)
        p1 == Put(props, "source_files", SetV({source_file}))
        p2 == Put(p1, "entity_type",
                  Str(IF "type" \in DOMAIN entity THEN entity.type ELSE "Unknown"))
    IN  Put(p2, "entity_name",
            Str(IF "name" \in DOMAIN entity THEN entity.name ELSE node_id))

\* new nodes given one shared source_files set instead of a fresh one
MergeEntitySharedSources(g, entity, source_file) ==
    LET node_id == IF "id" \in DOMAIN entity THEN entity.id ELSE ""
        shared == UNION {AsSet(Get(g.node[n], "source_files", SetV({}))) : n \in DOMAIN g.node}
    IN  IF node_id = "" THEN g
        ELSE IF has_node(g, node_id) THEN UpdateNode(g, node_id, entity, source_file)
        ELSE add_node(g, node_id,
                      Put(NewNodeProps(entity, node_id, source_file), "source_files",
                          SetV(shared \cup {source_file})))

\* one iteration of the loop over entities
MergeEntity(g, entity, source_file) ==
    LET node_id == IF "id" \in DOMAIN entity THEN entity.id ELSE ""
    IN  IF node_id = "" THEN g
        ELSE IF has_node(g, node_id) THEN UpdateNode(g, node_id, entity, source_file)
        ELSE add_node(g, node_id, NewNodeProps(entity, node_id, source_file))

\* lines 263-268: an edge that exists
UpdateEdge(g, source, target, rel_type, source_file) ==
    LET existing_props == g.edge[<<source, target>>]
        current == Get(existing_props, "relationship_types", ListV(<<>>))
        as_list == IF current.kind = "str" THEN ListV(<<current.s>>) ELSE current
        types == IF rel_type \in Range(as_list.items) THEN as_list
                 ELSE ListV(Append(as_list.items, rel_type))
    IN  [g EXCEPT !.edge[<<source, target>>] = Put(existing_props, "relationship_types", types)]

\* lines 270-272: the attribute dict of a new edge
NewEdgeProps(rel, rel_type, source_file) ==
    Put(Put(Properties(rel), "relationship_type", Str(rel_type)),
        "source_files", SetV({source_file}))

\* the has_edge test of line 262 dropped: add_edge is called for every relationship
MergeRelationshipAlwaysAdds(g, rel, source_file) ==
    LET source == IF "source" \in DOMAIN rel THEN rel.source ELSE ""
        target == IF "target" \in DOMAIN rel THEN rel.target ELSE ""
        rel_type == IF "type" \in DOMAIN rel THEN rel.type ELSE "RELATES_TO"
    IN  IF source = "" \/ target = "" THEN g
        ELSE add_edge(g, source, target, NewEdgeProps(rel, rel_type, source_file))

\* one iteration of the loop over relationships
MergeRelationship(g, rel, source_file) ==
    LET source == IF "source" \in DOMAIN rel THEN rel.source ELSE ""
        target == IF "target" \in DOMAIN rel THEN rel.target ELSE ""
        rel_type == IF "type" \in DOMAIN rel THEN rel.type ELSE "RELATES_TO"
    IN  IF source = "" \/ target = "" THEN g
        ELSE IF has_edge(g, source, target)
             THEN UpdateEdge(g, source, target, rel_type, source_file)
        ELSE add_edge(g, source, target, NewEdgeProps(rel, rel_type, source_file))

RECURSIVE MergeEntities(_, _, _)
MergeEntities(g, entities, source_file) ==
    IF entities = <<>> THEN g
    ELSE MergeEntities(MergeEntity(g, Head(entities), source_file), Tail(entities), source_file)

RECURSIVE MergeRelationships(_, _, _)
MergeRelationships(g, relationships, source_file) ==
    IF relationships = <<>> THEN g
    ELSE MergeRelationships(MergeRelationship(g, Head(relationships), source_file),
                            Tail(relationships), source_file)

add_to_graph(g, entities, relationships, source_file) ==
    MergeRelationships(MergeEntities(g, entities, source_file), relationships, source_file)

(***************************************************************************)
(* GraphIngestion.ingest_file: the loop over the chunks of one document.   *)
(* extraction_results holds what the extractor returns for each chunk.     *)
(***************************************************************************)
RECURSIVE ingest_file(_, _, _)
ingest_file(g, extraction_results, source_file) ==
    IF extraction_results = <<>> THEN g
    ELSE LET extraction_result == Head(extraction_results)
             entities == extraction_result.entities
             relationships == extraction_result.relationships
         IN  ingest_file(IF entities # <<>> \/ relationships # <<>>
                         THEN add_to_graph(g, entities, relationships, source_file)
                         ELSE g,
                         Tail(extraction_results), source_file)

(***************************************************************************)
(* GraphIngestion.save_graph and load_graph, GraphRetrieval.load_graph     *)
(***************************************************************************)
\* list(a_set): the elements in the iteration order of the set, which is
\* the order in which file_order lists them
SetToList(v, file_order) == ListV(SelectSeq(file_order, LAMBDA f : f \in v.elems))

\* the iteration orders a set of source files can have
FileOrders ==
    {q \in [1..Cardinality(SourceFiles) -> SourceFiles] : Range(q) = SourceFiles}

\* nx.DiGraph.copy(): nodes in node order, edges regrouped by source node
RECURSIVE CopiedEdgeOrder(_, _)
CopiedEdgeOrder(g, nodes) ==
    IF nodes = <<>> THEN <<>>
    ELSE LET u == Head(nodes)
             targets == successors(g, u)
         IN  [i \in 1..Len(targets) |-> <<u, targets[i]>>] \o CopiedEdgeOrder(g, Tail(nodes))

copy(g) == [g EXCEPT !.edge_order = CopiedEdgeOrder(g, g.node_order)]

\* lines 437-440
SavedNodeProps(props, file_order) ==
    [k \in DOMAIN props |->
        IF k = "source_files" /\ props[k].kind = "set" THEN SetToList(props[k], file_order)
        ELSE props[k]]

\* lines 442-447
SavedEdgeProps(props, file_order) ==
    [k \in DOMAIN props |->
        IF k \in {"source_files", "relationship_types"} /\ props[k].kind = "set"
        THEN SetToList(props[k], file_order)
        ELSE props[k]]

\* lines 436-447: graph_copy with its sets converted to lists
ConvertedCopy(g, file_order) ==
    LET c == copy(g)
    IN  [c EXCEPT !.node = [n \in DOMAIN c.node |-> SavedNodeProps(c.node[n], file_order)],
                  !.edge = [e \in DOMAIN c.edge |-> SavedEdgeProps(c.edge[e], file_order)]]

\* lines 449-450: pickle.dump(graph_copy, f)
PickleDump(c) == [exists |-> TRUE, corrupt |-> FALSE, graph |-> c]

\* lines 453-473: the JSON mirror of graph_copy
JsonDump(c) ==
    [exists |-> TRUE,
     nodes |-> [i \in 1..Len(c.node_order) |->
                  [id |-> c.node_order[i], props |-> c.node[c.node_order[i]]]],
     edges |-> [i \in 1..Len(c.edge_order) |->
                  [source |-> c.edge_order[i][1], target |-> c.edge_order[i][2],
                   props |-> c.edge[c.edge_order[i]]]]]

\* set(a_list) when the attribute is a list
ListToSet(v) == IF v.kind = "list" THEN SetV(Range(v.items)) ELSE v

\* node loop of the loaders without the conversion
KeepNodeProps(props) == props

\* lines 483-486 of graph_ingestion.py, 23-26 of graph_retrieval.py
LoadedNodeProps(props) ==
    [k \in DOMAIN props |-> IF k = "source_files" THEN ListToSet(props[k]) ELSE props[k]]

\* edge loop of the loaders without the conversion
KeepEdgeProps(props) == props

\* lines 488-491 of graph_ingestion.py, 28-31 of graph_retrieval.py
LoadedEdgeProps(props) ==
    [k \in DOMAIN props |-> IF k = "source_files" THEN ListToSet(props[k]) ELSE props[k]]

\* the graph pickle.load returns, with its lists converted back
Unpickled(file) ==
    [file.graph EXCEPT
        !.node = [n \in DOMAIN file.graph.node |-> LoadedNodeProps(file.graph.node[n])],
        !.edge = [e \in DOMAIN file.graph.edge |-> LoadedEdgeProps(file.graph.edge[e])]]

\* pickle.load raises on a snapshot that is not a complete pickle
UnpickleRaises(file) == file.exists /\ file.corrupt

\* GraphIngestion.load_graph has no exception handler
ingestion_load_raises(file) == UnpickleRaises(file)

\* GraphIngestion.load_graph: the graph is left as it is without a snapshot
ingestion_load_graph(g, file) == IF file.exists THEN Unpickled(file) ELSE g

\* GraphRetrieval.load_graph: an empty graph without a snapshot, and when
\* loading raises (lines 34-35)
retrieval_load_graph(file) ==
    IF file.exists /\ ~UnpickleRaises(file) THEN Unpickled(file) ELSE EmptyGraph

(***************************************************************************)
(* Initial state: a fresh process with an empty graph_db directory.        *)
(***************************************************************************)
Threads == {"t1", "t2"}

NoCall == [entities |-> <<>>, relationships |-> <<>>, source_file |-> ""]

NoResult == [call |-> ""]

NoTraversal ==
    [entity |-> "", relationship_types |-> {}, depth |-> 0, found |-> FALSE, related |-> <<>>]

Init ==
    /\ graph = EmptyGraph
    /\ prev = EmptyGraph
    /\ last_call = NoCall
    /\ ingests = 0
    /\ pkl_file = [exists |-> FALSE, corrupt |-> FALSE, graph |-> EmptyGraph]
    /\ json_file = [exists |-> FALSE, nodes |-> <<>>, edges |-> <<>>]
    /\ retrieval_graph = EmptyGraph
    /\ traversal = NoTraversal
    /\ response = [handler |-> "", status |-> 0]
    /\ pc = [t \in Threads |-> "idle"]
    /\ request = [t \in Threads |-> NoCall]
    /\ graph_copy = [t \in Threads |-> EmptyGraph]
    /\ graph_ingestion = "GraphIngestion"
    /\ result = NoResult

(***************************************************************************)
(* GraphIngestion.ingest_file, one iteration of the loop over chunks       *)
(* (lines 283-295): extract, then add_to_graph when anything was found.    *)
(***************************************************************************)
HasContent(extraction_result) ==
    ~(extraction_result.entities = <<>> /\ extraction_result.relationships = <<>>)

AddExtraction(extraction_result, source_file) ==
    /\ ingests < MaxIngests
    /\ HasContent(extraction_result)
    /\ graph' = add_to_graph(graph, extraction_result.entities,
                             extraction_result.relationships, source_file)
    /\ prev' = graph
    /\ last_call' = [entities |-> extraction_result.entities,
                     relationships |-> extraction_result.relationships,
                     source_file |-> source_file]
    /\ ingests' = ingests + 1
    /\ UNCHANGED <<graph_ingestion, result,
                   pkl_file, json_file, retrieval_graph, traversal, response,
                   pc, request, graph_copy>>

\* use_llm is false or no client is configured
IngestChunkRuleBased ==
    \E i \in 1..Len(Chunks), source_file \in SourceFiles :
        AddExtraction(extract_entities_rule_based(Chunks[i], source_file), source_file)

\* use_llm and a client is configured
IngestChunkLlm ==
    \E i \in 1..Len(LlmResults), source_file \in SourceFiles :
        AddExtraction(LlmResults[i], source_file)

Next ==
    \/ IngestChunkRuleBased
    \/ IngestChunkLlm

Spec == Init /\ [][Next]_vars

(***************************************************************************)
(* Views of a graph used to state the properties.                          *)
(***************************************************************************)
NodeIds(g) == DOMAIN g.node

Edges(g) == DOMAIN g.edge

\* an attribute dict with its list-valued attributes read as sets
AsSets(props) ==
    [k \in DOMAIN props |-> IF props[k].kind = "list" THEN SetV(Range(props[k].items))
                            ELSE props[k]]

\* same node set, same edge set, same attribute values; orders are ignored
SameContent(g1, g2) ==
    /\ NodeIds(g1) = NodeIds(g2)
    /\ Edges(g1) = Edges(g2)
    /\ \A n \in NodeIds(g1) : AsSets(g1.node[n]) = AsSets(g2.node[n])
    /\ \A e \in Edges(g1) : AsSets(g1.edge[e]) = AsSets(g2.edge[e])

SourceFilesOf(props) == AsSet(Get(props, "source_files", SetV({})))

RelationshipTypesOf(props) == AsSet(Get(props, "relationship_types", SetV({})))

\* the ordered pairs and the types the relationships of a call supply
RelPair(rel) ==
    << IF "source" \in DOMAIN rel THEN rel.source ELSE "",
       IF "target" \in DOMAIN rel THEN rel.target ELSE "" >>

RelType(rel) == IF "type" \in DOMAIN rel THEN rel.type ELSE "RELATES_TO"

Supplied(call) ==
    {i \in 1..Len(call.relationships) :
        RelPair(call.relationships[i])[1] # "" /\ RelPair(call.relationships[i])[2] # ""}

EntityIds(call) ==
    {call.entities[i].id : i \in {j \in 1..Len(call.entities) : "id" \in DOMAIN call.entities[j]}}
        \ {""}

\* every node id a call mentions, in its entities or relationship endpoints
MentionedIds(call) ==
    EntityIds(call)
        \cup {RelPair(call.relationships[i])[1] : i \in Supplied(call)}
        \cup {RelPair(call.relationships[i])[2] : i \in Supplied(call)}

Replay(g, call) == add_to_graph(g, call.entities, call.relationships, call.source_file)

\* a step that is an add_to_graph call
IsAddToGraph == ingests' = ingests + 1

(***************************************************************************)
(* C1.  Merge is idempotent: calling add_to_graph twice with the same      *)
(* (entities, relationships, source_file) leaves the same node set, edge   *)
(* set and attribute values as calling it once.                            *)
(***************************************************************************)
C1_MergeIdempotent ==
    [][(IsAddToGraph /\ ingests >= 1 /\ last_call' = last_call)
        => SameContent(graph', graph)]_vars

(***************************************************************************)
(* C2.  Every edge has relationship_types holding every type merged for    *)
(* its ordered pair, the first-seen type included, and the collection      *)
(* never shrinks.                                                          *)
(***************************************************************************)
C2_TypesAccumulate ==
    \A e \in Edges(graph) :
        LET types == RelationshipTypesOf(graph.edge[e])
        IN  /\ "relationship_types" \in DOMAIN graph.edge[e]
            /\ graph.edge[e]["relationship_type"].s \in types
            /\ \A i \in Supplied(last_call) :
                  RelPair(last_call.relationships[i]) = e
                      => RelType(last_call.relationships[i]) \in types
            /\ e \in Edges(prev) => RelationshipTypesOf(prev.edge[e]) \subseteq types

(***************************************************************************)
(* C3.  A relationship merged for a pair that already has an edge adds the *)
(* call's source_file to the edge's source_files and changes no other      *)
(* attribute of the edge.                                                  *)
(***************************************************************************)
C3_EdgeSourceFiles ==
    \A i \in Supplied(last_call) :
        LET e == RelPair(last_call.relationships[i])
        IN  e \in Edges(prev) =>
               /\ last_call.source_file \in SourceFilesOf(graph.edge[e])
               /\ \A k \in DOMAIN prev.edge[e] \ {"source_files", "relationship_types"} :
                     graph.edge[e][k] = prev.edge[e][k]

\* the part of C3 the code keeps: the other attributes of the edge
C3_OtherEdgeAttributesKept ==
    \A e \in Edges(prev) :
        \A k \in DOMAIN prev.edge[e] \ {"relationship_types"} :
            k \in DOMAIN graph.edge[e] /\ graph.edge[e][k] = prev.edge[e][k]

(***************************************************************************)
(* C7.  First write wins per attribute key: a non-empty attribute of a     *)
(* node (entity_type and entity_name included) is not changed by a later   *)
(* merge of an entity with the same id; only absent or empty keys are      *)
(* filled.  source_files is the accumulating set and is not a value this   *)
(* rule covers.                                                            *)
(***************************************************************************)
C7_FirstWriteWins ==
    \A n \in NodeIds(prev) :
        /\ n \in NodeIds(graph)
        /\ \A k \in DOMAIN prev.node[n] \ {"source_files"} :
              /\ k \in DOMAIN graph.node[n]
              /\ Truthy(prev.node[n][k]) => graph.node[n][k] = prev.node[n][k]
        /\ \A k \in DOMAIN graph.node[n] \ (DOMAIN prev.node[n] \cup {"source_files"}) :
              \E i \in 1..Len(last_call.entities) :
                  /\ "id" \in DOMAIN last_call.entities[i]
                  /\ last_call.entities[i].id = n
                  /\ k \in DOMAIN Properties(last_call.entities[i])

\* a later entity disagrees with a stored non-empty value and with the stored
\* type, and brings a key the node did not have
C7_Witness ==
    \E i \in 1..Len(last_call.entities) :
        LET entity == last_call.entities[i]
        IN  /\ "id" \in DOMAIN entity
            /\ entity.id \in NodeIds(prev)
            /\ "type" \in DOMAIN entity
            /\ "entity_type" \in DOMAIN prev.node[entity.id]
            /\ prev.node[entity.id]["entity_type"] # Str(entity.type)
            /\ \E k \in DOMAIN Properties(entity) \cap DOMAIN prev.node[entity.id] :
                  /\ Truthy(prev.node[entity.id][k])
                  /\ Properties(entity)[k] # prev.node[entity.id][k]
            /\ \E k \in DOMAIN Properties(entity) \ DOMAIN prev.node[entity.id] :
                  graph.node[entity.id][k] = Properties(entity)[k]

(***************************************************************************)
(* C8.  A node's source_files holds the source of every merge of an entity *)
(* with its id and never shrinks; the same requirement text ingested from  *)
(* file1.txt and then from file2.txt leaves req_4_1 with both.             *)
(***************************************************************************)
ScenarioCall(source_file) ==
    LET extraction_result == extract_entities_rule_based(<<LineReq41>>, source_file)
    IN  [entities |-> extraction_result.entities,
         relationships |-> extraction_result.relationships,
         source_file |-> source_file]

ScenarioReached ==
    /\ prev = Replay(EmptyGraph, ScenarioCall("file1.txt"))
    /\ last_call = ScenarioCall("file2.txt")

C8_NodeSourcesAccumulate ==
    /\ \A n \in EntityIds(last_call) :
          n \in NodeIds(graph) /\ last_call.source_file \in SourceFilesOf(graph.node[n])
    /\ \A n \in NodeIds(prev) :
          n \in NodeIds(graph)
              /\ SourceFilesOf(prev.node[n]) \subseteq SourceFilesOf(graph.node[n])
    /\ ScenarioReached =>
          graph.node["req_4_1"]["source_files"] = SetV({"file1.txt", "file2.txt"})

C8_Witness == ScenarioReached

(***************************************************************************)
(* C9.  Merging commutes on disjoint batches: when the latest call and     *)
(* another batch mention disjoint node ids, merging them in either order   *)
(* from the same starting graph gives the same nodes, edges and attribute  *)
(* values.                                                                 *)
(***************************************************************************)
AllCalls ==
    {[entities |-> extract_entities_rule_based(Chunks[i], f).entities,
      relationships |-> extract_entities_rule_based(Chunks[i], f).relationships,
      source_file |-> f] : i \in 1..Len(Chunks), f \in SourceFiles}
    \cup
    {[entities |-> LlmResults[i].entities,
      relationships |-> LlmResults[i].relationships,
      source_file |-> f] : i \in 1..Len(LlmResults), f \in SourceFiles}

Disjoint(call_a, call_b) == MentionedIds(call_a) \cap MentionedIds(call_b) = {}

C9_DisjointMergesCommute ==
    \A other \in AllCalls :
        Disjoint(last_call, other) =>
            SameContent(Replay(graph, other), Replay(Replay(prev, other), last_call))

\* both batches bring edges into a graph that already has nodes, the two
\* orders insert the nodes in different orders
C9_Witness ==
    /\ NodeIds(prev) # {}
    /\ Supplied(last_call) # {}
    /\ \E other \in AllCalls :
          /\ Disjoint(last_call, other)
          /\ Supplied(other) # {}
          /\ other.source_file # last_call.source_file
          /\ Replay(graph, other).node_order
                # Replay(Replay(prev, other), last_call).node_order

(***************************************************************************)
(* The Flask handlers of api_server.py, one request at a time.             *)
(***************************************************************************)
ExtractedDocument(chunks, source_file) ==
    [source_file |-> source_file,
     extraction_results |->
        [i \in 1..Len(chunks) |-> extract_entities_rule_based(chunks[i], source_file)]]

\* documents a request can name, with what the extractor returns per chunk
ApiDocuments ==
    << ExtractedDocument(<<Chunks[1]>>, "file1.txt"),
       ExtractedDocument(<<Chunks[1], <<LineBlank>> >>, "file2.txt"),
       [source_file |-> "file2.txt",
        extraction_results |-> <<LlmResults[2], LlmResults[3]>>] >>

\* folders of .txt files; a file that is not readable makes load_document raise
ApiFolders ==
    << << [document |-> ApiDocuments[1], readable |-> TRUE],
          [document |-> ApiDocuments[3], readable |-> TRUE] >>,
       << [document |-> ApiDocuments[1], readable |-> FALSE],
          [document |-> ApiDocuments[2], readable |-> TRUE] >> >>

Responded(handler, status) == response' = [handler |-> handler, status |-> status]

\* How a save_graph call can end: it returns, open() of the snapshot raises,
\* pickle.dump raises after open() has truncated the snapshot, or the JSON
\* mirror cannot be written.
SaveOutcomes == {"ok", "pkl_open_raises", "pkl_dump_raises", "json_raises"}

\* what is left of a snapshot whose write broke off
Truncated(file) == [file EXCEPT !.exists = TRUE, !.corrupt = TRUE]

\* the conversion loops run on the attribute dicts of the in-memory graph
SaveSnapshotInPlace(g, file_order) ==
    [graph |-> ConvertedCopy(g, file_order), graph_copy |-> ConvertedCopy(g, file_order)]

\* lines 436-447: the in-memory graph and the local graph_copy after the
\* conversion loops; graph.copy() gives graph_copy attribute dicts of its own
SaveSnapshot(g, file_order) == [graph |-> g, graph_copy |-> ConvertedCopy(g, file_order)]

\* lines 449-450
WrittenPkl(file, c, outcome) ==
    CASE outcome = "pkl_open_raises" -> file
      [] outcome = "pkl_dump_raises" -> Truncated(file)
      [] OTHER -> PickleDump(c)

\* lines 453-473
WrittenJson(file, c, outcome) == IF outcome = "ok" THEN JsonDump(c) ELSE file

\* save_graph as one call on the graph g that the merge has produced
SaveGraph(g, file_order, outcome) ==
    /\ graph' = SaveSnapshot(g, file_order).graph
    /\ pkl_file' = WrittenPkl(pkl_file, SaveSnapshot(g, file_order).graph_copy, outcome)
    /\ json_file' = WrittenJson(json_file, SaveSnapshot(g, file_order).graph_copy, outcome)

\* status of a handler whose save_graph call ended with outcome
SaveStatus(outcome) == IF outcome = "ok" THEN 200 ELSE 500

\* initialize_system, lines 47-64: a process start.  An exception of
\* load_graph is caught at line 62 and leaves graph_ingestion = None.
InitializeSystem ==
    /\ IF ingestion_load_raises(pkl_file)
       THEN graph_ingestion' = "None" /\ graph' = EmptyGraph
       ELSE graph_ingestion' = "GraphIngestion"
            /\ graph' = ingestion_load_graph(EmptyGraph, pkl_file)
    /\ Responded("startup", 0)
    /\ UNCHANGED <<result, prev, last_call, ingests, pkl_file, json_file, retrieval_graph,
                   traversal, pc, request, graph_copy>>

\* a handler that returns before it reaches the graph
Rejected(handler, status) ==
    /\ Responded(handler, status)
    /\ UNCHANGED <<graph, pkl_file, json_file>>

\* POST /graph/ingest-text
IngestTextGraph ==
    \E i \in 1..Len(ApiDocuments), has_text \in BOOLEAN :
        /\ ingests < MaxRequests
        /\ ingests' = ingests + 1
        /\ IF ~has_text THEN Rejected("ingest-text", 400)
           ELSE IF graph_ingestion = "None" THEN Rejected("ingest-text", 500)
           ELSE /\ graph' = ingest_file(graph, ApiDocuments[i].extraction_results,
                                        ApiDocuments[i].source_file)
                /\ Responded("ingest-text", 200)
                /\ UNCHANGED <<pkl_file, json_file>>
        /\ UNCHANGED <<graph_ingestion, result, prev, last_call, retrieval_graph,
                       traversal, pc, request, graph_copy>>

\* POST /graph/ingest-file
IngestFileGraph ==
    \E i \in 1..Len(ApiDocuments), file_exists \in BOOLEAN, file_order \in FileOrders,
       outcome \in SaveOutcomes :
        /\ ingests < MaxRequests
        /\ ingests' = ingests + 1
        /\ IF graph_ingestion = "None" THEN Rejected("ingest-file", 500)
           ELSE IF ~file_exists THEN Rejected("ingest-file", 404)
           ELSE /\ SaveGraph(ingest_file(graph, ApiDocuments[i].extraction_results,
                                         ApiDocuments[i].source_file),
                             file_order, outcome)
                /\ Responded("ingest-file", SaveStatus(outcome))
        /\ UNCHANGED <<graph_ingestion, result, prev, last_call, retrieval_graph,
                       traversal, pc, request, graph_copy>>

\* POST /graph/ingest-url
IngestUrlGraph ==
    \E i \in 1..Len(ApiDocuments), downloaded \in BOOLEAN, file_order \in FileOrders,
       outcome \in SaveOutcomes :
        /\ ingests < MaxRequests
        /\ ingests' = ingests + 1
        /\ IF graph_ingestion = "None" THEN Rejected("ingest-url", 500)
           ELSE IF ~downloaded THEN Rejected("ingest-url", 500)
           ELSE /\ SaveGraph(ingest_file(graph, ApiDocuments[i].extraction_results,
                                         ApiDocuments[i].source_file),
                             file_order, outcome)
                /\ Responded("ingest-url", SaveStatus(outcome))
        /\ UNCHANGED <<graph_ingestion, result, prev, last_call, retrieval_graph,
                       traversal, pc, request, graph_copy>>

\* GraphIngestion.ingest_folder, lines 313-324: a file that raises is skipped
RECURSIVE ingest_folder(_, _)
ingest_folder(g, files) ==
    IF files = <<>> THEN g
    ELSE ingest_folder(IF Head(files).readable
                       THEN ingest_file(g, Head(files).document.extraction_results,
                                        Head(files).document.source_file)
                       ELSE g,
                       Tail(files))

\* POST /graph/ingest-folder
IngestFolderGraph ==
    \E i \in 1..Len(ApiFolders), folder_exists \in BOOLEAN, file_order \in FileOrders,
       outcome \in SaveOutcomes :
        /\ ingests < MaxRequests
        /\ ingests' = ingests + 1
        /\ IF graph_ingestion = "None" THEN Rejected("ingest-folder", 500)
           ELSE IF ~folder_exists THEN Rejected("ingest-folder", 500)
           ELSE /\ SaveGraph(ingest_folder(graph, ApiFolders[i]), file_order, outcome)
                /\ Responded("ingest-folder", SaveStatus(outcome))
        /\ UNCHANGED <<graph_ingestion, result, prev, last_call, retrieval_graph,
                       traversal, pc, request, graph_copy>>

\* GET /graph/stats
GetGraphStats ==
    /\ Responded("stats", IF graph_ingestion = "None" THEN 500 ELSE 200)
    /\ UNCHANGED <<graph_ingestion, result, graph, prev, last_call, ingests, pkl_file,
                   json_file, retrieval_graph, traversal, pc, request, graph_copy>>

\* POST /graph/query: a new GraphQuerySystem loads the latest snapshot
QueryGraph ==
    /\ retrieval_graph' = retrieval_load_graph(pkl_file)
    /\ Responded("query", IF DOMAIN retrieval_graph'.node = {} THEN 400 ELSE 200)
    /\ UNCHANGED <<graph_ingestion, result, graph, prev, last_call, ingests, pkl_file,
                   json_file, traversal, pc, request, graph_copy>>

NextApi ==
    \/ InitializeSystem
    \/ IngestTextGraph
    \/ IngestFileGraph
    \/ IngestUrlGraph
    \/ IngestFolderGraph
    \/ GetGraphStats
    \/ QueryGraph

SpecApi == Init /\ [][NextApi]_vars

\* same node set, same edge set, the same value under every attribute key
SameAttributes(g1, g2) ==
    /\ NodeIds(g1) = NodeIds(g2)
    /\ Edges(g1) = Edges(g2)
    /\ \A n \in NodeIds(g1) : g1.node[n] = g2.node[n]
    /\ \A e \in Edges(g1) : g1.edge[e] = g2.edge[e]

IngestionHandlers == {"ingest-text", "ingest-file", "ingest-url", "ingest-folder"}

SavingHandlers == {"ingest-file", "ingest-url", "ingest-folder"}

(***************************************************************************)
(* C4.  Every ingestion entry point persists the graph after merging:      *)
(* when it has returned successfully, the snapshot a query loads holds     *)
(* every node and edge of the in-memory graph.                             *)
(***************************************************************************)
C4_IngestionPersists ==
    (response.handler \in IngestionHandlers /\ response.status = 200)
        => SameAttributes(retrieval_load_graph(pkl_file), graph)

\* the part of C4 the code keeps: the entry points that call save_graph
C4_SavingHandlersPersist ==
    (response.handler \in SavingHandlers /\ response.status = 200)
        => SameAttributes(retrieval_load_graph(pkl_file), graph)

(***************************************************************************)
(* C6.  Save followed by load round-trips the graph: after a save, both    *)
(* loaders rebuild from the snapshot the node set, the edge set and the    *)
(* value of every attribute of the graph that was saved, source_files      *)
(* being sets again whatever order the snapshot lists them in.             *)
(***************************************************************************)
C6_SaveLoadRoundTrip ==
    (response.handler \in SavingHandlers /\ response.status = 200)
        => /\ pkl_file.exists
           /\ SameAttributes(ingestion_load_graph(EmptyGraph, pkl_file), graph)
           /\ SameAttributes(retrieval_load_graph(pkl_file), graph)

\* a saved graph with a node of two sources, listed in the snapshot in reverse
\* order, and an edge that carries a relationship_types list
C6_Witness ==
    /\ response.handler \in SavingHandlers
    /\ response.status = 200
    /\ \E n \in NodeIds(graph) :
          /\ SourceFilesOf(graph.node[n]) = {"file1.txt", "file2.txt"}
          /\ pkl_file.graph.node[n]["source_files"] = ListV(<<"file2.txt", "file1.txt">>)
    /\ \E e \in Edges(graph) : Cardinality(RelationshipTypesOf(graph.edge[e])) >= 1

\* no snapshot, or one that pickle.load cannot read
Unusable(file) == ~file.exists \/ file.corrupt

(***************************************************************************)
(* C12.  A missing or corrupt snapshot on load is recovered by starting    *)
(* from an empty graph: neither loader raises, the store ends with an      *)
(* empty graph, and the service keeps accepting ingestion and statistics   *)
(* requests afterwards.                                                    *)
(***************************************************************************)
C12_LoadRecovers ==
    /\ graph_ingestion = "GraphIngestion"
    /\ (response.handler = "startup" /\ Unusable(pkl_file)) => graph = EmptyGraph
    /\ (response.handler = "query" /\ Unusable(pkl_file)) => retrieval_graph = EmptyGraph
    /\ response.handler = "stats" => response.status = 200

\* the part of C12 the code keeps: the retrieval-side loader recovers from a
\* missing and from a corrupt snapshot, the ingestion-side loader from a
\* missing one
C12_RetrievalLoadRecovers ==
    /\ (response.handler = "query" /\ Unusable(pkl_file)) => retrieval_graph = EmptyGraph
    /\ (response.handler = "startup" /\ ~pkl_file.exists)
          => graph_ingestion = "GraphIngestion" /\ graph = EmptyGraph

(***************************************************************************)
(* Concurrent POST /graph/ingest-file requests: the development server     *)
(* handles each request in its own thread, all on the module-level         *)
(* graph_ingestion object.  A thread can be preempted between any two      *)
(* statements; the steps below are the two loops of add_to_graph and the   *)
(* three parts of save_graph.  An exception of save_graph ends the request *)
(* in the handler's except clause, api_server.py:178-179.                  *)
(***************************************************************************)
ThreadCalls ==
    << ScenarioCall("file1.txt"),
       [entities |-> LlmResults[4].entities, relationships |-> LlmResults[4].relationships,
        source_file |-> "file2.txt"],
       [entities |-> LlmResults[3].entities, relationships |-> LlmResults[3].relationships,
        source_file |-> "file2.txt"] >>

\* the request is accepted and ingest_file has extracted the document
StartIngestFile(t) ==
    /\ pc[t] = "idle"
    /\ \E i \in 1..Len(ThreadCalls) : request' = [request EXCEPT ![t] = ThreadCalls[i]]
    /\ pc' = [pc EXCEPT ![t] = "add_entities"]
    /\ UNCHANGED <<graph_ingestion, result,
                   graph, prev, last_call, ingests, pkl_file, json_file, retrieval_graph,
                   traversal, response, graph_copy>>

\* add_to_graph, lines 230-252
AddEntities(t) ==
    /\ pc[t] = "add_entities"
    /\ graph' = MergeEntities(graph, request[t].entities, request[t].source_file)
    /\ pc' = [pc EXCEPT ![t] = "add_relationships"]
    /\ UNCHANGED <<graph_ingestion, result,
                   prev, last_call, ingests, pkl_file, json_file, retrieval_graph,
                   traversal, response, request, graph_copy>>

\* add_to_graph, lines 255-273
AddRelationships(t) ==
    /\ pc[t] = "add_relationships"
    /\ graph' = MergeRelationships(graph, request[t].relationships, request[t].source_file)
    /\ pc' = [pc EXCEPT ![t] = "save_copy"]
    /\ UNCHANGED <<graph_ingestion, result,
                   prev, last_call, ingests, pkl_file, json_file, retrieval_graph,
                   traversal, response, request, graph_copy>>

\* save_graph, lines 436-447
CopyGraph(t) ==
    /\ pc[t] = "save_copy"
    /\ \E file_order \in FileOrders :
          /\ graph' = SaveSnapshot(graph, file_order).graph
          /\ graph_copy' = [graph_copy EXCEPT ![t] = SaveSnapshot(graph, file_order).graph_copy]
    /\ pc' = [pc EXCEPT ![t] = "save_pkl"]
    /\ UNCHANGED <<graph_ingestion, result,
                   prev, last_call, ingests, pkl_file, json_file, retrieval_graph,
                   traversal, response, request>>

\* save_graph, lines 449-450
WritePkl(t) ==
    /\ pc[t] = "save_pkl"
    /\ \E outcome \in {"ok", "pkl_open_raises", "pkl_dump_raises"} :
          /\ pkl_file' = WrittenPkl(pkl_file, graph_copy[t], outcome)
          /\ IF outcome = "ok"
             THEN pc' = [pc EXCEPT ![t] = "save_json"] /\ UNCHANGED response
             ELSE pc' = [pc EXCEPT ![t] = "failed"]
                  /\ Responded("ingest-file", SaveStatus(outcome))
    /\ UNCHANGED <<graph_ingestion, result,
                   graph, prev, last_call, ingests, json_file, retrieval_graph,
                   traversal, request, graph_copy>>

\* save_graph, lines 453-473, and the handler's return
WriteJson(t) ==
    /\ pc[t] = "save_json"
    /\ \E outcome \in {"ok", "json_raises"} :
          /\ json_file' = WrittenJson(json_file, graph_copy[t], outcome)
          /\ pc' = [pc EXCEPT ![t] = IF outcome = "ok" THEN "done" ELSE "failed"]
          /\ Responded("ingest-file", SaveStatus(outcome))
    /\ UNCHANGED <<graph_ingestion, result,
                   graph, prev, last_call, ingests, pkl_file, retrieval_graph,
                   traversal, request, graph_copy>>

NextThreads ==
    \E t \in Threads :
        \/ StartIngestFile(t)
        \/ AddEntities(t)
        \/ AddRelationships(t)
        \/ CopyGraph(t)
        \/ WritePkl(t)
        \/ WriteJson(t)

SpecThreads == Init /\ [][NextThreads]_vars

\* between the start of the merge and the end of the save
InRegion(t) == pc[t] \notin {"idle", "done", "failed"}

\* the snapshot has the nodes and the edges a batch supplies
SnapshotHolds(call) ==
    /\ MentionedIds(call) \subseteq NodeIds(pkl_file.graph)
    /\ {RelPair(call.relationships[i]) : i \in Supplied(call)} \subseteq Edges(pkl_file.graph)

\* a step of save_graph in thread t
SaveStep(t) == pc[t] \in {"save_copy", "save_pkl", "save_json"} /\ pc'[t] # pc[t]

\* the source_files of every node and edge of the in-memory graph are sets
SourceFilesAreSets(g) ==
    /\ \A n \in NodeIds(g) :
          "source_files" \in DOMAIN g.node[n] => g.node[n]["source_files"].kind = "set"
    /\ \A e \in Edges(g) :
          "source_files" \in DOMAIN g.edge[e] => g.edge[e]["source_files"].kind = "set"

\* C19: save_graph does not change the in-memory graph: whether the save
\* succeeds or fails part-way, every node, edge and property value of the
\* in-memory graph is the same as before (source_files are still sets), and a
\* failure is raised to the ingestion caller, whose request ends with 500.
C19_SaveLeavesGraph ==
    [][\A t \in Threads :
          SaveStep(t)
              => /\ graph' = graph
                 /\ SourceFilesAreSets(graph')
                 /\ pc'[t] = "failed"
                       => response' = [handler |-> "ingest-file", status |-> 500]]_vars

\* a save has failed after the snapshot was truncated; the in-memory graph
\* still has a set where the thread's graph_copy has a list
C19_Witness ==
    \E t \in Threads :
        /\ pc[t] = "failed"
        /\ response = [handler |-> "ingest-file", status |-> 500]
        /\ pkl_file.corrupt
        /\ \E n \in NodeIds(graph) :
              /\ n \in NodeIds(graph_copy[t])
              /\ graph.node[n]["source_files"].kind = "set"
              /\ graph_copy[t].node[n]["source_files"].kind = "list"

(***************************************************************************)
(* C5.  Concurrent ingestion requests run their merge+save sequences one   *)
(* at a time under a single mutual-exclusion region, and once every        *)
(* request has completed the snapshot on disk has the nodes and edges of   *)
(* every batch.                                                            *)
(***************************************************************************)
C5_NoLostUpdate ==
    (\A t \in Threads : pc[t] = "done") => \A t \in Threads : SnapshotHolds(request[t])

C5_SerializedIngestion ==
    /\ \A t1 \in Threads, t2 \in Threads : t1 # t2 => ~(InRegion(t1) /\ InRegion(t2))
    /\ C5_NoLostUpdate

\* {k: (list(v) if isinstance(v, set) else v) for k, v in props.items() if k
\* not in excluded}: the attribute dicts the retrieval results carry
ListedProps(props, excluded, file_order) ==
    [k \in DOMAIN props \ excluded |->
        IF props[k].kind = "set" THEN SetToList(props[k], file_order) ELSE props[k]]

(***************************************************************************)
(* GraphRetrieval.traverse_from_entity                                     *)
(***************************************************************************)
\* the test of line 127 with > in place of >=
AtDepthLimitOffByOne(current_depth, depth) == current_depth > depth

\* line 127
AtDepthLimit(current_depth, depth) == current_depth >= depth

\* edge_data.get("relationship_type", "RELATES_TO")
EdgeRelType(g, u, v) == Get(g.edge[<<u, v>>], "relationship_type", Str("RELATES_TO")).s

\* not relationship_types or rel_type in relationship_types
Passes(relationship_types, rel_type) ==
    relationship_types = {} \/ rel_type \in relationship_types

\* lines 138-149 and 159-170: record the neighbor, mark it visited, enqueue it
Discover(g, st, neighbor, relationship, current_depth, file_order) ==
    [visited |-> st.visited \cup {neighbor},
     related |-> Append(st.related,
                    [entity_id |-> neighbor,
                     entity_name |-> Get(g.node[neighbor], "entity_name", Str(neighbor)).s,
                     entity_type |-> Get(g.node[neighbor], "entity_type", Str("Unknown")).s,
                     relationship |-> relationship,
                     depth |-> current_depth + 1,
                     properties |-> ListedProps(g.node[neighbor],
                                                {"entity_type", "entity_name"}, file_order)]),
     queue |-> Append(st.queue, <<neighbor, current_depth + 1>>)]

\* lines 131-149: the loop over the successors of current
RECURSIVE VisitSuccessors(_, _, _, _, _, _, _)
VisitSuccessors(g, relationship_types, current, current_depth, neighbors, st, file_order) ==
    IF neighbors = <<>> THEN st
    ELSE LET neighbor == Head(neighbors)
             rel_type == EdgeRelType(g, current, neighbor)
         IN  VisitSuccessors(g, relationship_types, current, current_depth, Tail(neighbors),
                (IF neighbor \notin st.visited /\ Passes(relationship_types, rel_type)
                 THEN Discover(g, st, neighbor, rel_type, current_depth, file_order)
                 ELSE st), file_order)

\* lines 152-170: the loop over the predecessors of current
RECURSIVE VisitPredecessors(_, _, _, _, _, _, _)
VisitPredecessors(g, relationship_types, current, current_depth, neighbors, st, file_order) ==
    IF neighbors = <<>> THEN st
    ELSE LET neighbor == Head(neighbors)
             rel_type == EdgeRelType(g, neighbor, current)
         IN  VisitPredecessors(g, relationship_types, current, current_depth, Tail(neighbors),
                (IF neighbor \notin st.visited /\ Passes(relationship_types, rel_type)
                 THEN Discover(g, st, neighbor, "reverse_" \o rel_type, current_depth,
                               file_order)
                 ELSE st), file_order)

\* lines 124-170: the while loop over the queue
RECURSIVE TraverseLoop(_, _, _, _, _)
TraverseLoop(g, relationship_types, depth, st, file_order) ==
    IF st.queue = <<>> THEN st
    ELSE LET current == Head(st.queue)[1]
             current_depth == Head(st.queue)[2]
             popped == [st EXCEPT !.queue = Tail(@)]
         IN  IF AtDepthLimit(current_depth, depth)
             THEN TraverseLoop(g, relationship_types, depth, popped, file_order)
             ELSE TraverseLoop(g, relationship_types, depth,
                    VisitPredecessors(g, relationship_types, current, current_depth,
                        predecessors(g, current),
                        VisitSuccessors(g, relationship_types, current, current_depth,
                            successors(g, current), popped, file_order), file_order),
                    file_order)

\* the call and what it returns: entity, entity_name, found and related
traverse_from_entity(g, entity_id, relationship_types, depth, file_order) ==
    IF ~has_node(g, entity_id)
    THEN [entity |-> entity_id, relationship_types |-> relationship_types, depth |-> depth,
          found |-> FALSE, related |-> <<>>]
    ELSE [entity |-> entity_id, relationship_types |-> relationship_types, depth |-> depth,
          entity_name |-> Get(g.node[entity_id], "entity_name", Str(entity_id)).s,
          found |-> TRUE,
          related |-> TraverseLoop(g, relationship_types, depth,
                          [visited |-> {entity_id}, related |-> <<>>,
                           queue |-> << <<entity_id, 0>> >>], file_order).related]

(***************************************************************************)
(* The retrieval engine on a loaded graph.  The graphs are the snapshots   *)
(* of what up to two add_to_graph calls build, as GraphRetrieval loads     *)
(* them.                                                                   *)
(***************************************************************************)
\* a chunk of a penal code from which the LLM extracts eleven crimes
CrimeCatalogue ==
    [entities |->
        << [id |-> "theft", type |-> "Crime", name |-> "Theft"],
           [id |-> "fraud", type |-> "Crime"], [id |-> "arson", type |-> "Crime"],
           [id |-> "assault", type |-> "Crime"], [id |-> "bribery", type |-> "Crime"],
           [id |-> "burglary", type |-> "Crime"], [id |-> "forgery", type |-> "Crime"],
           [id |-> "perjury", type |-> "Crime"], [id |-> "robbery", type |-> "Crime"],
           [id |-> "extortion", type |-> "Crime"], [id |-> "trespass", type |-> "Crime"] >>,
     relationships |-> <<>>,
     source_file |-> "file1.txt"]

\* a later chunk of the same code: the code contains each of the eleven
\* crimes and each of them requires a punishment, which makes eleven directed
\* paths from penal_code to punishment; seven of the crimes are described
PenalCode ==
    [entities |->
        << [id |-> "penal_code", type |-> "Section"],
           [id |-> "punishment", type |-> "Concept"],
           [id |-> "theft", properties |-> [description |-> Str("taking property")]],
           [id |-> "burglary", properties |-> [description |-> Str("entering property")]],
           [id |-> "forgery", properties |-> [description |-> Str("a forged property deed")]],
           [id |-> "perjury", properties |-> [description |-> Str("lying about property")]],
           [id |-> "robbery", properties |-> [description |-> Str("property taken by force")]],
           [id |-> "extortion",
            properties |-> [description |-> Str("a crime property owners fear")]],
           [id |-> "trespass",
            properties |-> [description |-> Str("a crime property owners report")]] >>,
     relationships |->
        [i \in 1..Len(CrimeCatalogue.entities) |->
            [source |-> "penal_code", target |-> CrimeCatalogue.entities[i].id,
             type |-> "CONTAINS"]]
        \o [i \in 1..Len(CrimeCatalogue.entities) |->
            [source |-> CrimeCatalogue.entities[i].id, target |-> "punishment",
             type |-> "REQUIRES"]],
     source_file |-> "file1.txt"]

\* A batch of the LLM-backed extractor: one requirement whose description
\* quotes the policy in capitals, and no relationship
EncryptionNote ==
    [entities |->
        << [id |-> "encryption", type |-> "Requirement", name |-> "Encryption",
            properties |-> [description |-> Str("Storage REQUIRES encryption")]] >>,
     relationships |-> <<>>,
     source_file |-> "file1.txt"]

\* the graph after the first chunk of the penal code, and after both
CrimeGraph == Replay(EmptyGraph, CrimeCatalogue)

PenalCodeGraph == Replay(CrimeGraph, PenalCode)

BuiltGraphs ==
    {Replay(Replay(EmptyGraph, call_a), call_b) :
        call_a \in AllCalls \cup {NoCall}, call_b \in AllCalls \cup {NoCall}}

RetrievalGraphs ==
    {retrieval_load_graph(PickleDump(ConvertedCopy(g, file_order))) :
        g \in BuiltGraphs \cup {CrimeGraph, PenalCodeGraph,
                              Replay(EmptyGraph, EncryptionNote)},
        file_order \in FileOrders}

InitRetrieval ==
    /\ graph = EmptyGraph
    /\ prev = EmptyGraph
    /\ last_call = NoCall
    /\ ingests = 0
    /\ pkl_file = [exists |-> FALSE, corrupt |-> FALSE, graph |-> EmptyGraph]
    /\ json_file = [exists |-> FALSE, nodes |-> <<>>, edges |-> <<>>]
    /\ retrieval_graph \in RetrievalGraphs
    /\ traversal = NoTraversal
    /\ response = [handler |-> "", status |-> 0]
    /\ pc = [t \in Threads |-> "idle"]
    /\ request = [t \in Threads |-> NoCall]
    /\ graph_copy = [t \in Threads |-> EmptyGraph]
    /\ graph_ingestion = "GraphIngestion"
    /\ result = NoResult

\* What the lookups do to the graph.  They test graph.has_node(n) for the
\* ids they are given (graph_retrieval.py:66, 106, 117) and read attribute
\* dicts through graph.nodes[n] and graph.edges[u, v]; the dicts they return
\* are new ones (lines 58-59, 84, 99, 144-146, 165-167).  None of this
\* assigns to the graph or to an attribute dict of it.
graph_after_reads_creating(g, ids) ==
    LET missing == ids \ DOMAIN g.node
    IN  IF missing = {} THEN g ELSE add_node(g, CHOOSE n \in missing : TRUE, EmptyDict)

graph_after_reads(g, ids) == g

\* A retrieval object serves one call: api_server builds a new
\* GraphQuerySystem, which loads the snapshot, for every query (line 274),
\* and no lookup changes the graph.
NoLookupYet == traversal = NoTraversal /\ result = NoResult

\* ids a lookup can name: those of the graph and one that is in no graph
LookupIds == NodeIds(retrieval_graph) \cup {"unknown_entity"}

TypeFilters == {{}, {"REQUIRES"}, {"CONTAINS", "RELATES_TO"}}

TraverseFromEntity ==
    /\ NoLookupYet
    /\ \E entity_id \in LookupIds, relationship_types \in TypeFilters, depth \in 0..MaxDepth,
          file_order \in FileOrders :
           /\ traversal' = traverse_from_entity(retrieval_graph, entity_id,
                                                relationship_types, depth, file_order)
           /\ retrieval_graph' = graph_after_reads(retrieval_graph, {entity_id})
           /\ UNCHANGED <<graph_ingestion, result,
                          graph, prev, last_call, ingests, pkl_file, json_file,
                          response, pc, request, graph_copy>>

\* nodes joined to n by an edge in either direction
Adjacent(g, n) ==
    {e[2] : e \in {x \in Edges(g) : x[1] = n}} \cup {e[1] : e \in {x \in Edges(g) : x[2] = n}}

\* nodes within k hops of the nodes of S
RECURSIVE Within(_, _, _)
Within(g, S, k) ==
    IF k = 0 THEN S ELSE Within(g, S \cup UNION {Adjacent(g, n) : n \in S}, k - 1)

(***************************************************************************)
(* C10.  Traversal bound: traverse_from_entity(id, depth = d) returns only *)
(* nodes within d hops of id, edges followed in either direction, reports  *)
(* no node twice, never reports the start node, and reports no depth above *)
(* d.                                                                      *)
(***************************************************************************)
C10_TraversalBound ==
    \A i \in 1..Len(traversal.related) :
        LET r == traversal.related[i]
        IN  /\ r.entity_id \in Within(retrieval_graph, {traversal.entity}, traversal.depth)
            /\ r.entity_id # traversal.entity
            /\ r.depth <= traversal.depth
            /\ \A j \in 1..Len(traversal.related) :
                  j # i => traversal.related[j].entity_id # r.entity_id

\* an unfiltered traversal at the default depth that reaches a node in the
\* reverse direction at depth 2 and leaves out a node that is three hops away
C10_Witness ==
    /\ traversal.found
    /\ traversal.depth = 2
    /\ traversal.relationship_types = {}
    /\ \E i \in 1..Len(traversal.related) :
          /\ traversal.related[i].depth = 2
          /\ traversal.related[i].relationship = "reverse_REQUIRES"
    /\ \E n \in NodeIds(retrieval_graph) :
          /\ n \in Within(retrieval_graph, {traversal.entity}, 3)
          /\ n \notin Within(retrieval_graph, {traversal.entity}, 2)
          /\ \A i \in 1..Len(traversal.related) : traversal.related[i].entity_id # n

(***************************************************************************)
(* GraphRetrieval.find_related_entities                                    *)
(***************************************************************************)
\* max_results of the signature, and the one query_graph passes
DefaultMaxResults == 10

QueryMaxResults == 5

\* the string-valued attributes of a node
StringKeys(props) == {k \in DOMAIN props : props[k].kind = "str"}

\* lines 45-53: the query occurs in the name, the id, the description or a
\* string-valued attribute, case-insensitively
Matches(g, node, query_lower) ==
    LET props == g.node[node]
    IN  \/ Contains(Lowered(Get(props, "entity_name", Str("")).s), query_lower)
        \/ Contains(Lowered(node), query_lower)
        \/ Contains(Lowered(Get(props, "description", Str("")).s), query_lower)
        \/ \E k \in StringKeys(props) : Contains(Lowered(props[k].s), query_lower)

\* lines 54-60
MatchEntry(g, node, file_order) ==
    [id |-> node,
     type |-> Get(g.node[node], "entity_type", Str("Unknown")).s,
     name |-> Get(g.node[node], "entity_name", Str(node)).s,
     properties |-> ListedProps(g.node[node], {"entity_type", "entity_name"}, file_order)]

\* matches[:max_results]
Take(q, n) == SubSeq(q, 1, IF Len(q) < n THEN Len(q) ELSE n)

find_related_entities(g, entity_query, max_results, file_order) ==
    LET query_lower == lower(entity_query)
        hits == SelectSeq(g.node_order, LAMBDA node : Matches(g, node, query_lower))
    IN  Take([i \in 1..Len(hits) |-> MatchEntry(g, hits[i], file_order)], max_results)

\* query strings of a caller
Queries == {"theft", "THEFT", "Crime", "req_4_1", "DPO sign-off", "approval", "spoofing", ""}

FindRelatedEntities ==
    /\ NoLookupYet
    /\ \E q \in Queries, max_results \in {DefaultMaxResults, QueryMaxResults},
          file_order \in FileOrders :
           /\ result' = [call |-> "find_related_entities", entity_query |-> q,
                         max_results |-> max_results,
                         matches |-> find_related_entities(retrieval_graph, Chars(q),
                                                           max_results, file_order)]
           /\ retrieval_graph' = graph_after_reads(retrieval_graph, {})
           /\ UNCHANGED <<graph_ingestion, graph, prev, last_call, ingests, pkl_file, json_file,
                          traversal, response, pc, request, graph_copy>>

\* a node whose name, id or string-valued attribute is the query string
ExactMatch(g, node, q) ==
    \/ node = q
    \/ \E k \in StringKeys(g.node[node]) : g.node[node][k].s = q

MatchedIds(matches) == {matches[i].id : i \in 1..Len(matches)}

(***************************************************************************)
(* C11.  Matching recall: every node whose name, id or string-valued       *)
(* attribute is exactly the query string is in the result of               *)
(* find_related_entities(q) with the default max_results, however many     *)
(* other nodes match.                                                      *)
(***************************************************************************)
C11_MatchingRecall ==
    (result.call = "find_related_entities" /\ result.max_results = DefaultMaxResults)
        => \A node \in NodeIds(retrieval_graph) :
              ExactMatch(retrieval_graph, node, result.entity_query)
                  => node \in MatchedIds(result.matches)

\* the part of C11 the code keeps: recall when the matches fit under max_results
C11_RecallUnderTheCap ==
    (result.call = "find_related_entities"
        /\ Len(result.matches) < result.max_results)
        => \A node \in NodeIds(retrieval_graph) :
              ExactMatch(retrieval_graph, node, result.entity_query)
                  => node \in MatchedIds(result.matches)

(***************************************************************************)
(* GraphRetrieval.get_entity_relationships, graph_retrieval.py:64-102.     *)
(* relationship_types is a set of type names; the empty set stands for     *)
(* None and for the empty list, which the test on line 77 treats alike.    *)
(***************************************************************************)
\* lines 78-85: the entry appended for the edge entity_id -> target
OutgoingEntry(g, entity_id, target, file_order) ==
    [target |-> target,
     relationship |-> EdgeRelType(g, entity_id, target),
     target_name |-> Get(g.node[target], "entity_name", Str(target)).s,
     target_type |-> Get(g.node[target], "entity_type", Str("Unknown")).s,
     properties |-> ListedProps(g.edge[<<entity_id, target>>], {"relationship_type"},
                                file_order)]

\* lines 93-100: the entry appended for the edge source -> entity_id
IncomingEntry(g, source, entity_id, file_order) ==
    [source |-> source,
     relationship |-> EdgeRelType(g, source, entity_id),
     source_name |-> Get(g.node[source], "entity_name", Str(source)).s,
     source_type |-> Get(g.node[source], "entity_type", Str("Unknown")).s,
     properties |-> ListedProps(g.edge[<<source, entity_id>>], {"relationship_type"},
                                file_order)]

\* lines 73-85: the loop over the successors
RECURSIVE OutgoingOf(_, _, _, _, _)
OutgoingOf(g, entity_id, relationship_types, targets, file_order) ==
    IF targets = <<>> THEN <<>>
    ELSE (IF Passes(relationship_types, EdgeRelType(g, entity_id, Head(targets)))
          THEN <<OutgoingEntry(g, entity_id, Head(targets), file_order)>>
          ELSE <<>>)
         \o OutgoingOf(g, entity_id, relationship_types, Tail(targets), file_order)

\* lines 88-100: the loop over the predecessors
RECURSIVE IncomingOf(_, _, _, _, _)
IncomingOf(g, entity_id, relationship_types, sources, file_order) ==
    IF sources = <<>> THEN <<>>
    ELSE (IF Passes(relationship_types, EdgeRelType(g, Head(sources), entity_id))
          THEN <<IncomingEntry(g, Head(sources), entity_id, file_order)>>
          ELSE <<>>)
         \o IncomingOf(g, entity_id, relationship_types, Tail(sources), file_order)

\* the loop over the successors left out: only the edges into the entity listed
get_entity_relationships_incoming_only(g, entity_id, relationship_types, file_order) ==
    IF ~has_node(g, entity_id)
    THEN [outgoing |-> <<>>, incoming |-> <<>>]
    ELSE [outgoing |-> <<>>,
          incoming |-> IncomingOf(g, entity_id, relationship_types,
                                  predecessors(g, entity_id), file_order)]

get_entity_relationships(g, entity_id, relationship_types, file_order) ==
    IF ~has_node(g, entity_id)
    THEN [outgoing |-> <<>>, incoming |-> <<>>]
    ELSE [outgoing |-> OutgoingOf(g, entity_id, relationship_types,
                                  successors(g, entity_id), file_order),
          incoming |-> IncomingOf(g, entity_id, relationship_types,
                                  predecessors(g, entity_id), file_order)]

\* A call of get_entity_relationships on the loaded graph
GetEntityRelationships ==
    /\ NoLookupYet
    /\ \E entity_id \in LookupIds, relationship_types \in TypeFilters, file_order \in FileOrders :
           /\ result' = [call |-> "get_entity_relationships", entity_id |-> entity_id,
                         relationship_types |-> relationship_types,
                         relationships |-> get_entity_relationships(retrieval_graph, entity_id,
                                               relationship_types, file_order)]
           /\ retrieval_graph' = graph_after_reads(retrieval_graph, {entity_id})
           /\ UNCHANGED <<graph_ingestion, graph, prev, last_call, ingests, pkl_file, json_file,
                          traversal, response, pc, request, graph_copy>>

\* The snapshots of the graph that ingesting the one line
\* "4.1 Approval from DPO is required." into an empty graph builds
ScenarioSnapshots ==
    {retrieval_load_graph(PickleDump(ConvertedCopy(
         Replay(EmptyGraph, ScenarioCall(source_file)), file_order))) :
        source_file \in SourceFiles, file_order \in FileOrders}

\* C16: after the one line "4.1 Approval from DPO is required." is ingested
\* into an empty graph, the graph holds req_4_1 of type Requirement,
\* req_dpo_approval and the edge req_4_1 -> req_dpo_approval of type REQUIRES,
\* and get_entity_relationships("req_4_1") lists exactly that one outgoing
\* relation and no incoming relation.
C16_ScenarioRelationships ==
    (/\ retrieval_graph \in ScenarioSnapshots
     /\ result.call = "get_entity_relationships"
     /\ result.entity_id = "req_4_1"
     /\ result.relationship_types = {})
        => /\ has_node(retrieval_graph, "req_4_1")
           /\ retrieval_graph.node["req_4_1"]["entity_type"] = Str("Requirement")
           /\ has_node(retrieval_graph, "req_dpo_approval")
           /\ retrieval_graph.edge_order = << <<"req_4_1", "req_dpo_approval">> >>
           /\ EdgeRelType(retrieval_graph, "req_4_1", "req_dpo_approval") = "REQUIRES"
           /\ Len(result.relationships.outgoing) = 1
           /\ result.relationships.outgoing[1].target = "req_dpo_approval"
           /\ result.relationships.outgoing[1].relationship = "REQUIRES"
           /\ result.relationships.incoming = <<>>

\* the lookup of req_4_1 on the scenario's graph has returned
C16_Witness ==
    /\ retrieval_graph \in ScenarioSnapshots
    /\ result.call = "get_entity_relationships"
    /\ result.entity_id = "req_4_1"
    /\ result.relationship_types = {}
    /\ Len(result.relationships.outgoing) = 1

(***************************************************************************)
(* GraphRetrieval.find_paths, graph_retrieval.py:104-113: the simple       *)
(* directed paths from source_entity to target_entity of at most           *)
(* max_length edges, in the depth-first order of nx.all_simple_paths, cut  *)
(* to the first MaxPaths.                                                  *)
(***************************************************************************)
DefaultMaxLength == 5

MaxPaths == 10

InPath(path, n) == \E i \in 1..Len(path) : path[i] = n

\* the paths that extend `path` through the children still to visit; a child
\* already on the path is skipped, the target closes a path and is not walked
\* through, and a path of cutoff edges is not extended
RECURSIVE SimplePaths(_, _, _, _, _)
SimplePaths(g, path, children, target, cutoff) ==
    IF children = <<>> THEN <<>>
    ELSE LET child == Head(children)
             through == IF InPath(path, child) THEN <<>>
                        ELSE IF child = target THEN <<Append(path, child)>>
                        ELSE IF Len(path) < cutoff
                             THEN SimplePaths(g, Append(path, child), successors(g, child),
                                              target, cutoff)
                             ELSE <<>>
         IN  through \o SimplePaths(g, path, Tail(children), target, cutoff)

\* nx.all_simple_paths(graph, source, target, cutoff) with both nodes present
\* and source # target: nothing for a cutoff below 1
all_simple_paths(g, source, target, cutoff) ==
    IF cutoff < 1 THEN <<>>
    ELSE SimplePaths(g, <<source>>, successors(g, source), target, cutoff)

\* networkx releases differ on source = target: older ones yield no path,
\* newer ones the one-node path, and the repository pins no release
SameNodePaths(source) == {<<>>, << <<source>> >>}

\* the guard of line 106 dropped: a missing endpoint is searched like a present one
find_paths_unguarded(g, source_entity, target_entity, max_length) ==
    IF source_entity = target_entity
    THEN SameNodePaths(source_entity)
    ELSE {Take(all_simple_paths(g, source_entity, target_entity, max_length), MaxPaths)}

\* line 111 without the slice: every path that was found is returned
find_paths_uncapped(g, source_entity, target_entity, max_length) ==
    IF ~has_node(g, source_entity) \/ ~has_node(g, target_entity)
    THEN {<<>>}
    ELSE IF source_entity = target_entity
         THEN SameNodePaths(source_entity)
         ELSE {all_simple_paths(g, source_entity, target_entity, max_length)}

\* the values find_paths can return
find_paths(g, source_entity, target_entity, max_length) ==
    IF ~has_node(g, source_entity) \/ ~has_node(g, target_entity)
    THEN {<<>>}
    ELSE IF source_entity = target_entity
         THEN SameNodePaths(source_entity)
         ELSE {Take(all_simple_paths(g, source_entity, target_entity, max_length),
                    MaxPaths)}

\* A call of find_paths on the loaded graph
FindPaths ==
    /\ NoLookupYet
    /\ \E source_entity \in LookupIds, target_entity \in LookupIds,
          max_length \in {1, DefaultMaxLength} :
           \E paths \in find_paths(retrieval_graph, source_entity, target_entity, max_length) :
               /\ result' = [call |-> "find_paths", source_entity |-> source_entity,
                             target_entity |-> target_entity, max_length |-> max_length,
                             paths |-> paths]
               /\ retrieval_graph' = graph_after_reads(retrieval_graph, {source_entity, target_entity})
               /\ UNCHANGED <<graph_ingestion, graph, prev, last_call, ingests, pkl_file,
                              json_file, traversal, response, pc, request,
                              graph_copy>>

\* path leads from source to target along edges of g, through no node twice,
\* over at most max_length edges
SimplePathOf(g, path, source, target, max_length) ==
    /\ Len(path) >= 1
    /\ path[1] = source
    /\ path[Len(path)] = target
    /\ \A i \in 1..(Len(path) - 1) : has_edge(g, path[i], path[i + 1])
    /\ \A i, j \in 1..Len(path) : path[i] = path[j] => i = j
    /\ Len(path) - 1 <= max_length

\* C22: find_paths(source, target, max_length) returns at most 10 paths, and
\* every returned path starts at source, ends at target, follows existing
\* directed edges, repeats no node and has at most max_length edges.
C22_PathsAreSimpleAndCapped ==
    result.call = "find_paths"
        => /\ Len(result.paths) <= MaxPaths
           /\ \A i \in 1..Len(result.paths) :
                  SimplePathOf(retrieval_graph, result.paths[i], result.source_entity,
                               result.target_entity, result.max_length)

\* find_paths has returned ten two-edge paths on a graph that has more of them
C22_Witness ==
    /\ result.call = "find_paths"
    /\ Len(result.paths) = MaxPaths
    /\ Len(all_simple_paths(retrieval_graph, result.source_entity, result.target_entity,
                            result.max_length)) > MaxPaths
    /\ \A i \in 1..Len(result.paths) : Len(result.paths[i]) = 3

\* C18: a lookup against an id that is not in the graph returns a structured
\* empty result: get_entity_relationships returns empty outgoing and incoming
\* lists, traverse_from_entity returns found = False with an empty related
\* list, and find_paths returns an empty list when either endpoint is absent.
C18_UnknownIdLookups ==
    /\ (result.call = "get_entity_relationships"
           /\ ~has_node(retrieval_graph, result.entity_id))
          => result.relationships = [outgoing |-> <<>>, incoming |-> <<>>]
    /\ (traversal # NoTraversal /\ ~has_node(retrieval_graph, traversal.entity))
          => (~traversal.found /\ traversal.related = <<>>)
    /\ (result.call = "find_paths"
           /\ (~has_node(retrieval_graph, result.source_entity)
                  \/ ~has_node(retrieval_graph, result.target_entity)))
          => result.paths = <<>>

\* find_paths has returned for an unknown target on a graph where the known
\* source has an outgoing edge
C18_Witness ==
    /\ result.call = "find_paths"
    /\ has_node(retrieval_graph, result.source_entity)
    /\ successors(retrieval_graph, result.source_entity) # <<>>
    /\ ~has_node(retrieval_graph, result.target_entity)
    /\ result.paths = <<>>

(***************************************************************************)
(* GraphRetrieval._extract_concepts, graph_retrieval.py:225-254.  A        *)
(* concept is a sequence of characters.  list(set(concepts)) has no fixed  *)
(* order, so the call has a set of possible return values.                 *)
(***************************************************************************)
MaxConcepts == 10

\* lines 231-238
Keywords ==
    {"theft", "steal", "mobile", "phone", "property",
     "accident", "accidental", "intentional", "intent",
     "crime", "criminal", "illegal", "illegally",
     "require", "required", "must", "should",
     "approval", "consent", "permission",
     "data", "storage", "external", "server",
     "dpo", "data protection", "encryption"}

Whitespace == {" ", "\n", "\t"}

\* str.split(): the maximal runs of characters that are not whitespace
RECURSIVE SplitWords(_, _)
SplitWords(cs, word) ==
    IF cs = <<>> THEN (IF word = <<>> THEN <<>> ELSE <<word>>)
    ELSE IF Head(cs) \in Whitespace
         THEN (IF word = <<>> THEN <<>> ELSE <<word>>) \o SplitWords(Tail(cs), <<>>)
         ELSE SplitWords(Tail(cs), Append(word, Head(cs)))

split(cs) == SplitWords(cs, <<>>)

\* lines 246-251: each word with the word after it
Phrases(words) ==
    {words[i] \o <<" ">> \o words[i + 1] : i \in 1..(Len(words) - 1)}

\* lines 241-251: set(concepts)
ConceptSet(question) ==
    LET question_lower == Lowered(question)
    IN  {Chars(keyword) : keyword \in {k \in Keywords : Contains(question_lower, Chars(k))}}
        \cup Phrases(split(question_lower))

\* the orders in which a set can be listed
Orderings(S) ==
    {order \in [1..Cardinality(S) -> S] :
        \A i, j \in 1..Cardinality(S) : i # j => order[i] # order[j]}

\* line 254: the values _extract_concepts can return
extract_concepts(question) ==
    {Take(order, MaxConcepts) : order \in Orderings(ConceptSet(question))}

(***************************************************************************)
(* GraphRetrieval._build_context_from_graph, graph_retrieval.py:256-301.   *)
(* A piece of text is a sequence of strings read one after the other; a    *)
(* part is one element of context_parts.                                   *)
(***************************************************************************)
ContextRelLimit == 5

\* repr of the items of a list of strings
RECURSIVE ReprItems(_)
ReprItems(items) ==
    IF items = <<>> THEN <<>>
    ELSE <<"'", Head(items), "'">>
         \o (IF Len(items) > 1 THEN <<", ">> ELSE <<>>) \o ReprItems(Tail(items))

\* a value in an f-string: a string as it is, a list as its repr
Formatted(v) ==
    IF v.kind = "str" THEN <<v.s>> ELSE <<"[">> \o ReprItems(v.items) \o <<"]">>

\* lines 276-282
OutgoingParts(entity_name, outgoing) ==
    IF outgoing = <<>> THEN <<>>
    ELSE << <<"Relationships (requires/contains):">> >>
         \o [i \in 1..Len(Take(outgoing, ContextRelLimit)) |->
                <<"  - ", entity_name, " ", outgoing[i].relationship, " ",
                  outgoing[i].target_name>>]
         \o << <<"">> >>

\* lines 284-290
IncomingParts(entity_name, incoming) ==
    IF incoming = <<>> THEN <<>>
    ELSE << <<"Related from:">> >>
         \o [i \in 1..Len(Take(incoming, ContextRelLimit)) |->
                <<"  - ", incoming[i].source_name, " ", incoming[i].relationship, " ",
                  entity_name>>]
         \o << <<"">> >>

\* lines 293-299
TraversalParts(entity_name, related) ==
    IF related = <<>> THEN <<>>
    ELSE << <<"Related entities (2-hop):">> >>
         \o [i \in 1..Len(Take(related, ContextRelLimit)) |->
                <<"  - ", entity_name, " → ", related[i].entity_name, " (",
                  related[i].relationship, ")">>]
         \o << <<"">> >>

\* lines 260-299: the parts appended for one element of related_info
ContextParts(info) ==
    LET entity == info.entity
    IN  << <<"\n=== ", entity.type, ": ", entity.name, " ===\n">> >>
        \o (IF "description" \in DOMAIN entity.properties
            THEN << <<"Description: ">> \o Formatted(entity.properties["description"])
                    \o <<"\n">> >>
            ELSE <<>>)
        \o OutgoingParts(entity.name, info.relationships.outgoing)
        \o IncomingParts(entity.name, info.relationships.incoming)
        \o TraversalParts(entity.name, info.traversal.related)

\* "\n".join(parts)
RECURSIVE Join(_)
Join(parts) ==
    IF parts = <<>> THEN <<>>
    ELSE IF Len(parts) = 1 THEN parts[1]
    ELSE parts[1] \o <<"\n">> \o Join(Tail(parts))

RECURSIVE AllContextParts(_)
AllContextParts(related_info) ==
    IF related_info = <<>> THEN <<>>
    ELSE ContextParts(Head(related_info)) \o AllContextParts(Tail(related_info))

build_context_from_graph(related_info) == Join(AllContextParts(related_info))

\* the characters of a text
RECURSIVE TextOf(_)
TextOf(pieces) ==
    IF pieces = <<>> THEN <<>> ELSE Chars(Head(pieces)) \o TextOf(Tail(pieces))

(***************************************************************************)
(* GraphRetrieval.query_graph, graph_retrieval.py:179-223                  *)
(***************************************************************************)
TopEntities == 5

MaxMatched == 10

QueryDepth == 2

\* lines 187-190
RECURSIVE MatchedForConcepts(_, _, _)
MatchedForConcepts(g, concepts, file_order) ==
    IF concepts = <<>> THEN <<>>
    ELSE find_related_entities(g, Head(concepts), QueryMaxResults, file_order)
         \o MatchedForConcepts(g, Tail(concepts), file_order)

\* the loop of lines 193-198 without the test on seen_ids
UniqueEntitiesKeepAll(matched_entities, seen_ids) == matched_entities

\* lines 193-198
RECURSIVE UniqueEntities(_, _)
UniqueEntities(matched_entities, seen_ids) ==
    IF matched_entities = <<>> THEN <<>>
    ELSE IF Head(matched_entities).id \in seen_ids
         THEN UniqueEntities(Tail(matched_entities), seen_ids)
         ELSE <<Head(matched_entities)>>
              \o UniqueEntities(Tail(matched_entities),
                                seen_ids \cup {Head(matched_entities).id})

\* lines 203-213
RelatedInfo(g, entity, file_order) ==
    [entity |-> entity,
     relationships |-> get_entity_relationships(g, entity.id, {}, file_order),
     traversal |-> traverse_from_entity(g, entity.id, {}, QueryDepth, file_order)]

\* query_graph for one of the concept lists _extract_concepts can return
query_graph(g, question, concepts, file_order) ==
    LET unique_entities == UniqueEntities(MatchedForConcepts(g, concepts, file_order), {})
        top == Take(unique_entities, TopEntities)
        related_info == [i \in 1..Len(top) |-> RelatedInfo(g, top[i], file_order)]
    IN  [question |-> question,
         matched_entities |-> Take(unique_entities, MaxMatched),
         graph_context |-> build_context_from_graph(related_info),
         related_info |-> related_info]

\* questions of a caller
Questions == {"Is it theft?", "DPO approval", "Crime", "Crime property", "encryption", ""}

\* A call of query_graph on the loaded graph
RetrievalQueryGraph ==
    /\ NoLookupYet
    /\ \E question \in Questions, file_order \in FileOrders :
           \E concepts \in extract_concepts(question) :
               /\ result' = [call |-> "query_graph", concepts |-> concepts,
                             returned |-> query_graph(retrieval_graph, question, concepts,
                                                      file_order)]
               /\ retrieval_graph' = graph_after_reads(retrieval_graph, {})
               /\ UNCHANGED <<graph_ingestion, graph, prev, last_call, ingests, pkl_file,
                              json_file, traversal, response, pc, request,
                              graph_copy>>

\* the text says that no entities were found
StatesNoEntitiesFound(text) ==
    /\ Contains(lower(text), Chars("no"))
    /\ Contains(lower(text), Chars("entities"))
    /\ Contains(lower(text), Chars("found"))

\* C15: on an empty graph query_graph returns matched_entities = [] and a
\* non-empty context string that explicitly states that no entities were
\* found, for every question.
C15_EmptyGraphContext ==
    (result.call = "query_graph" /\ NodeIds(retrieval_graph) = {})
        => /\ result.returned.matched_entities = <<>>
           /\ TextOf(result.returned.graph_context) # <<>>
           /\ StatesNoEntitiesFound(TextOf(result.returned.graph_context))

\* the part the code keeps: nothing is matched and nothing is expanded
C15_EmptyGraphMatchesNothing ==
    (result.call = "query_graph" /\ NodeIds(retrieval_graph) = {})
        => /\ result.returned.matched_entities = <<>>
           /\ result.returned.related_info = <<>>
           /\ TextOf(result.returned.graph_context) = <<>>

(***************************************************************************)
(* GovernanceAgent.evaluate_action, governance_agent.py:70-261, by the     *)
(* outcome of the inference service.  Every failure inside its try block   *)
(* is caught by one of its own except clauses, which return a decision.    *)
(***************************************************************************)
\* decisions parsed from a well-formed answer of the model
ModelVerdicts ==
    {[decision |-> "Allowed",
      reason |-> <<"No, it is not theft without intent.">>,
      suggested_changes |-> <<>>, references |-> <<"Section 4">>,
      risk_level |-> "Low", alternative_actions |-> <<>>, confidence_score |-> "0.85"],
     [decision |-> "Conditional",
      reason |-> <<"Conditional on DPO approval.">>,
      suggested_changes |-> <<"Obtain DPO approval">>, references |-> <<"Section 4.1">>,
      risk_level |-> "Medium", alternative_actions |-> <<>>, confidence_score |-> "0.7"]}

\* lines 209-218: json.JSONDecodeError
ParseFailureDecision ==
    [decision |-> "Not Allowed",
     reason |-> <<"Unable to parse governance decision. The AI response was not in valid JSON format. Manual review required.">>,
     suggested_changes |-> <<"Review action manually with compliance team">>,
     references |-> <<"Manual Review Required">>,
     risk_level |-> "High",
     alternative_actions |-> <<"Consult with compliance officer">>,
     confidence_score |-> "0.0"]

\* line 127: the exception raised when text_generation and chat_completion failed
BothFailedMessage ==
    <<"Both text_generation and chat_completion failed. Text error: ",
      "ConnectionError", ": ", "service unreachable", ". Chat error: ",
      "ConnectionError", ": ", "service unreachable">>

\* lines 252-261: any other exception
SystemErrorDecision(message) ==
    [decision |-> "Not Allowed",
     reason |-> <<"System error during evaluation: ">> \o message
                \o <<". Please retry or contact system administrator.">>,
     suggested_changes |-> <<"Retry evaluation", "Check API connectivity">>,
     references |-> <<"System Error">>,
     risk_level |-> "High",
     alternative_actions |-> <<"Contact system administrator", "Try again in a few minutes">>,
     confidence_score |-> "0.0"]

\* what the inference service does during one evaluation
ServiceOutcomes == {"answers", "unreachable", "unparsable"}

\* the decisions evaluate_action can return
evaluate_action(service) ==
    IF service = "answers" THEN ModelVerdicts
    ELSE IF service = "unparsable" THEN {ParseFailureDecision}
    ELSE {SystemErrorDecision(BothFailedMessage)}

(***************************************************************************)
(* GraphQuerySystem, graph_query_system.py.  graph_context_summary, a      *)
(* prefix of the prompt text, is left out of the responses.                *)
(***************************************************************************)
KeyRelationships == {"REQUIRES", "LACKS", "IS_NOT"}

\* _extract_decision_from_reason, lines 175-186
NotCrimeWords ==
    {"not a crime", "not crime", "not illegal", "not violate", "no, it is not",
     "no, this is not"}

IsCrimeWords == {"is a crime", "is illegal", "is violate", "yes, it is", "yes, this is"}

ConditionalWords == {"conditional", "depends", "may be"}

extract_decision_from_reason(reason) ==
    LET reason_lower == lower(TextOf(reason))
        any(words) == \E word \in words : Contains(reason_lower, Chars(word))
    IN  IF any(NotCrimeWords) THEN "Not a Crime"
        ELSE IF any(IsCrimeWords) THEN "Is a Crime"
        ELSE IF any(ConditionalWords) THEN "Conditional"
        ELSE "Unknown"

\* _extract_graph_paths, lines 200-213: the paths of one element of related_info
PathsOfInfo(info) ==
    LET entity_name == info.entity.name
        outgoing == SelectSeq(info.relationships.outgoing,
                              LAMBDA rel : rel.relationship \in KeyRelationships)
        incoming == SelectSeq(info.relationships.incoming,
                              LAMBDA rel : rel.relationship \in KeyRelationships)
    IN  [i \in 1..Len(outgoing) |->
            [source |-> entity_name, relationship |-> outgoing[i].relationship,
             target |-> outgoing[i].target_name]]
        \o [i \in 1..Len(incoming) |->
              [source |-> incoming[i].source_name,
               relationship |-> incoming[i].relationship, target |-> entity_name]]

RECURSIVE PathsOfInfos(_)
PathsOfInfos(infos) ==
    IF infos = <<>> THEN <<>> ELSE PathsOfInfo(Head(infos)) \o PathsOfInfos(Tail(infos))

\* _extract_graph_paths, lines 188-215
extract_graph_paths(related_info) == Take(PathsOfInfos(Take(related_info, 3)), 10)

\* lines 88-103: the sentences for one element of related_info
AnswerPartsOfInfo(info) ==
    LET entity_name == info.entity.name
        outgoing == SelectSeq(info.relationships.outgoing,
                              LAMBDA rel : rel.relationship \in KeyRelationships)
        incoming == SelectSeq(info.relationships.incoming,
                              LAMBDA rel : rel.relationship = "REQUIRES")
        verb(rel_type) == IF rel_type = "IS_NOT" THEN " is not "
                          ELSE IF rel_type = "LACKS" THEN " lacks " ELSE " requires "
    IN  [i \in 1..Len(outgoing) |->
            <<entity_name, verb(outgoing[i].relationship), outgoing[i].target_name, ".">>]
        \o [i \in 1..Len(incoming) |->
              <<incoming[i].source_name, " requires ", entity_name, ".">>]

RECURSIVE AnswerParts(_)
AnswerParts(infos) ==
    IF infos = <<>> THEN <<>>
    ELSE AnswerPartsOfInfo(Head(infos)) \o AnswerParts(Tail(infos))

\* the strings str(info) is made of: the ids, names, types, relationship names
\* and the keys and values of the attribute dicts (the fixed keys of the result
\* dicts are lower-case words)
PropLeaves(props) ==
    DOMAIN props
    \cup {props[k].s : k \in {j \in DOMAIN props : props[j].kind = "str"}}
    \cup UNION {{props[k].items[i] : i \in 1..Len(props[k].items)} :
                   k \in {j \in DOMAIN props : props[j].kind = "list"}}

StringLeaves(info) ==
    {info.entity.id, info.entity.type, info.entity.name}
    \cup PropLeaves(info.entity.properties)
    \cup UNION {{rel.target, rel.relationship, rel.target_name, rel.target_type}
                \cup PropLeaves(rel.properties) :
                   rel \in {info.relationships.outgoing[i] :
                               i \in 1..Len(info.relationships.outgoing)}}
    \cup UNION {{rel.source, rel.relationship, rel.source_name, rel.source_type}
                \cup PropLeaves(rel.properties) :
                   rel \in {info.relationships.incoming[i] :
                               i \in 1..Len(info.relationships.incoming)}}
    \cup {info.traversal.entity, info.traversal.entity_name}
    \cup UNION {{r.entity_id, r.entity_name, r.entity_type, r.relationship}
                \cup PropLeaves(r.properties) :
                   r \in {info.traversal.related[i] :
                             i \in 1..Len(info.traversal.related)}}

\* the markers the fallback looks for
Markers == {"IS_NOT", "REQUIRES"}

\* the markers that occur in each spelled string, computed once
MarkersIn == [s \in DOMAIN Spell |-> {m \in Markers : Contains(Spell[s], Chars(m))}]

\* lines 112 and 114: marker in str(info) for some info in related_info
Mentions(related_info, marker) ==
    \E i \in 1..Len(related_info) :
        \E leaf \in StringLeaves(related_info[i]) : marker \in MarkersIn[leaf]

\* _generate_answer_from_graph_only, lines 58-130
generate_answer_from_graph_only(question, matched_entities, related_info) ==
    IF matched_entities = <<>>
    THEN [question |-> question,
          answer |-> <<"Based on the knowledge graph:\n\n",
                       "No relevant entities found in the knowledge graph for this question.">>,
          decision |-> "Unknown",
          matched_entities |-> <<>>,
          graph_paths |-> <<>>,
          confidence_score |-> "0.0",
          risk_level |-> "Medium",
          references |-> <<>>,
          suggested_changes |-> <<"Ingest relevant documents to build knowledge graph">>,
          alternative_actions |-> <<>>]
    ELSE LET answer_parts == AnswerParts(Take(related_info, 3))
         IN  [question |-> question,
              answer |-> <<"Based on the knowledge graph:\n\n">>
                         \o (IF answer_parts # <<>>
                             THEN Join(Take(answer_parts, 5))
                                  \o <<"\n\nRelationship analysis from knowledge graph.">>
                             ELSE <<"Found relevant entities but no clear relationships to answer the question.">>),
              decision |-> IF Mentions(related_info, "IS_NOT") THEN "Not a Crime"
                           ELSE IF Mentions(related_info, "REQUIRES") THEN "Conditional"
                           ELSE "Unknown",
              matched_entities |-> Take(matched_entities, 5),
              graph_paths |-> extract_graph_paths(related_info),
              confidence_score |-> "0.5",
              risk_level |-> "Medium",
              references |-> [i \in 1..Len(Take(matched_entities, 3)) |->
                                 <<"Graph entity: ", matched_entities[i].name>>],
              suggested_changes |-> <<>>,
              alternative_actions |-> <<>>]

\* the decisions evaluate_action can return, each with the word that
\* _extract_decision_from_reason reads out of its reason, computed once
ReadDecision ==
    [decision \in UNION {evaluate_action(service) : service \in ServiceOutcomes} |->
        extract_decision_from_reason(decision.reason)]

\* lines 36-48: the response built from the decision of the governance agent
DecisionResponse(question, matched_entities, related_info, decision) ==
    [question |-> question,
     answer |-> decision.reason,
     decision |-> ReadDecision[decision],
     matched_entities |-> Take(matched_entities, 5),
     graph_paths |-> extract_graph_paths(related_info),
     confidence_score |-> decision.confidence_score,
     risk_level |-> decision.risk_level,
     references |-> decision.references,
     suggested_changes |-> decision.suggested_changes,
     alternative_actions |-> decision.alternative_actions]

\* lines 6-11: GovernanceAgent() raises without HUGGINGFACE_API_KEY and the
\* constructor keeps None
GovernanceAgents == {"None", "GovernanceAgent"}

\* answer_question, lines 13-56: the values it can return for one query result
answer_question(question, query, governance_agent, service) ==
    IF governance_agent # "None"
    THEN {DecisionResponse(question, query.matched_entities, query.related_info, decision) :
             decision \in evaluate_action(service)}
    ELSE {generate_answer_from_graph_only(question, query.matched_entities,
                                          query.related_info)}

\* A call of GraphQuerySystem.answer_question on the loaded graph
AnswerQuestion ==
    /\ NoLookupYet
    /\ \E question \in Questions, file_order \in FileOrders :
           \E concepts \in extract_concepts(question) :
               \E query \in {query_graph(retrieval_graph, question, concepts, file_order)},
                  governance_agent \in GovernanceAgents,
                  service \in ServiceOutcomes \cup {"not called"} :
                   \E answer \in answer_question(question, query, governance_agent,
                                                 service) :
                       /\ service = "not called" <=> governance_agent = "None"
                       /\ result' = [call |-> "answer_question",
                                     governance_agent |-> governance_agent,
                                     service |-> service, query |-> query,
                                     response |-> answer]
                       /\ retrieval_graph' = graph_after_reads(retrieval_graph, {})
                       /\ UNCHANGED <<graph_ingestion, graph, prev, last_call, ingests,
                                      pkl_file, json_file, traversal,
                                      response, pc, request, graph_copy>>

\* the graph-only fallback for the query of the recorded call
FallbackOf(call) ==
    generate_answer_from_graph_only(call.query.question, call.query.matched_entities,
                                    call.query.related_info)

\* the decision-maker is absent, or the service failed during its evaluation
Unavailable(call) ==
    \/ call.governance_agent = "None"
    \/ call.service \in {"unreachable", "unparsable"}

\* C13: whenever the decision-maker is absent or errors during evaluation
\* (service unreachable, unparsable output), answer_question returns the
\* graph-only fallback decision rather than a verdict of the decision-maker.
C13_FallbackWhenUnavailable ==
    (result.call = "answer_question" /\ Unavailable(result))
        => result.response = FallbackOf(result)

\* the part the code keeps: without a decision-maker the fallback is returned
C13_FallbackWhenAbsent ==
    (result.call = "answer_question" /\ result.governance_agent = "None")
        => result.response = FallbackOf(result)

\* what the code does when the evaluation fails: the response carries the
\* decision-maker's own failure verdict
C13_FailureVerdictReturned ==
    (result.call = "answer_question" /\ result.governance_agent # "None"
        /\ result.service \in {"unreachable", "unparsable"})
        => /\ result.response.answer
                 \in {ParseFailureDecision.reason, SystemErrorDecision(BothFailedMessage).reason}
           /\ result.response.risk_level = "High"
           /\ result.response.confidence_score = "0.0"
           /\ result.response.decision = "Unknown"

\* the types an edge entry of the evidence carries: its relationship and the
\* types accumulated in its relationship_types attribute
EntryTypes(rel) ==
    {rel.relationship}
    \cup (IF "relationship_types" \in DOMAIN rel.properties
             /\ rel.properties["relationship_types"].kind = "list"
          THEN {rel.properties["relationship_types"].items[i] :
                   i \in 1..Len(rel.properties["relationship_types"].items)}
          ELSE {})

\* some edge of the expanded evidence has the type: an outgoing or incoming
\* entry, or the edge by which the traversal reached a node, in either direction
EvidenceHasType(related_info, rel_type) ==
    \E i \in 1..Len(related_info) :
        \/ \E j \in 1..Len(related_info[i].relationships.outgoing) :
              rel_type \in EntryTypes(related_info[i].relationships.outgoing[j])
        \/ \E j \in 1..Len(related_info[i].relationships.incoming) :
              rel_type \in EntryTypes(related_info[i].relationships.incoming[j])
        \/ \E j \in 1..Len(related_info[i].traversal.related) :
              related_info[i].traversal.related[j].relationship
                  \in {rel_type, "reverse_" \o rel_type}

\* C14: the graph-only fallback decision depends only on the relationship
\* types present in the expanded evidence: negative iff some edge has type
\* IS_NOT, otherwise conditional iff some edge has type REQUIRES, otherwise
\* Unknown, whatever text the entity names and properties hold.  (The claim's
\* last clause, one fixed confidence, is C14_OneConfidence.)
C14_DecisionByEdgeTypes ==
    (result.call = "answer_question" /\ result.governance_agent = "None")
        => result.response.decision =
              IF EvidenceHasType(result.query.related_info, "IS_NOT") THEN "Not a Crime"
              ELSE IF EvidenceHasType(result.query.related_info, "REQUIRES")
                   THEN "Conditional"
                   ELSE "Unknown"

\* the fallback confidence is the same value in every response
C14_OneConfidence ==
    (result.call = "answer_question" /\ result.governance_agent = "None")
        => result.response.confidence_score = "0.5"

\* the part the code keeps: with IS_NOT or REQUIRES among the edge types of the
\* evidence the decision is the negative or the conditional one, and the
\* confidence is 0.5 whenever an entity matched
C14_EdgeTypesDecide ==
    (result.call = "answer_question" /\ result.governance_agent = "None")
        => /\ EvidenceHasType(result.query.related_info, "IS_NOT")
                 => result.response.decision = "Not a Crime"
           /\ EvidenceHasType(result.query.related_info, "REQUIRES")
                 => result.response.decision \in {"Conditional", "Not a Crime"}
           /\ result.query.matched_entities # <<>>
                 => result.response.confidence_score = "0.5"

(***************************************************************************)
(* The approval requirement of the rule-based extractor,                   *)
(* graph_ingestion.py:208-223, read from the text of the lines             *)
(***************************************************************************)
\* keyword in req_text.lower()
TextHas(ln, keyword) == Contains(Lowered(ln.req_text), Chars(keyword))

\* a numbered requirement line whose text names the approval and the authority
ApprovalLine(ln) ==
    ln.line # "" /\ ln.req_num # "" /\ TextHas(ln, "approval") /\ TextHas(ln, "dpo")

\* the batch holds the node req_dpo_approval and the REQUIRES edge from the
\* requirement of the line to it
ApprovalSynthesized(call, ln) ==
    /\ \E i \in 1..Len(call.entities) : call.entities[i].id = "req_dpo_approval"
    /\ \E i \in 1..Len(call.relationships) :
          /\ call.relationships[i].source = ReqId(ln.req_num)
          /\ call.relationships[i].target = "req_dpo_approval"
          /\ call.relationships[i].type = "REQUIRES"

\* the last merged batch is the rule-based extraction of the chunk
ExtractedFrom(text_chunk) ==
    /\ ingests > 0
    /\ \E source_file \in SourceFiles :
          /\ last_call.source_file = source_file
          /\ last_call.entities
                = extract_entities_rule_based(text_chunk, source_file).entities
          /\ last_call.relationships
                = extract_entities_rule_based(text_chunk, source_file).relationships

\* C17: rule-based extraction synthesizes the req_dpo_approval node and a
\* REQUIRES edge from the requirement to it for every numbered requirement
\* line whose text contains both "approval" and "dpo" (case-insensitive),
\* with no further condition on the text.
C17_ApprovalSynthesis ==
    \A c \in 1..Len(Chunks) :
        ExtractedFrom(Chunks[c])
            => \A l \in 1..Len(Chunks[c]) :
                  ApprovalLine(Chunks[c][l]) => ApprovalSynthesized(last_call, Chunks[c][l])

\* the part the code keeps: the synthesis for the lines that also say
\* "require" or "must"
C17_SynthesisWhenRequired ==
    \A c \in 1..Len(Chunks) :
        ExtractedFrom(Chunks[c])
            => \A l \in 1..Len(Chunks[c]) :
                  (ApprovalLine(Chunks[c][l])
                      /\ (TextHas(Chunks[c][l], "require") \/ TextHas(Chunks[c][l], "must")))
                      => ApprovalSynthesized(last_call, Chunks[c][l])

(***************************************************************************)
(* GraphIngestion.extract_entities_llm, graph_ingestion.py:64-142.  A      *)
(* text is a sequence of characters; an answer of the inference service is *)
(* given as a sequence of pieces.  A call ends by returning a value or by  *)
(* raising an exception.                                                   *)
(***************************************************************************)
MaxExtractions == 2

Return(value) == [kind |-> "return", value |-> value]

Raise(exception) == [kind |-> "raise", exception |-> exception, value |-> <<>>]

\* lines 67, 120, 139 and 142
EmptyShape == [entities |-> <<>>, relationships |-> <<>>]

\* texts that json.loads accepts, each with the value it returns
JsonDocuments ==
    << [text |-> "{\"entities\": [], \"relationships\": []}",
        value |-> [entities |-> <<>>, relationships |-> <<>>]],
       [text |-> "{\"entities\": [{\"id\": \"theft\", \"type\": \"Crime\", \"name\": \"Theft\"}], \"relationships\": []}",
        value |-> [entities |-> << [id |-> "theft", type |-> "Crime", name |-> "Theft"] >>,
                   relationships |-> <<>>]],
       [text |-> "{\"entities\": [{\"id\": \"theft\"}, {\"id\": \"intent\"}], \"relationships\": [{\"source\": \"theft\", \"target\": \"intent\", \"type\": \"REQUIRES\"}]}",
        value |-> [entities |-> << [id |-> "theft"], [id |-> "intent"] >>,
                   relationships |->
                      << [source |-> "theft", target |-> "intent", type |-> "REQUIRES"] >>]] >>

\* texts the inference service answers with, each a sequence of pieces
ResponseTexts ==
    {<<"{\"entities\": [], \"relationships\": []}">>,
     <<"(fence)", "json", "\n",
       "{\"entities\": [{\"id\": \"theft\", \"type\": \"Crime\", \"name\": \"Theft\"}], \"relationships\": []}",
       "\n", "(fence)">>,
     <<"(fence)", "\n",
       "{\"entities\": [{\"id\": \"theft\"}, {\"id\": \"intent\"}], \"relationships\": [{\"source\": \"theft\", \"target\": \"intent\", \"type\": \"REQUIRES\"}]}",
       "\n", "(fence)">>,
     <<"Here is the JSON: ",
       "{\"entities\": [{\"id\": \"theft\", \"type\": \"Crime\", \"name\": \"Theft\"}], \"relationships\": []}",
       " Done.">>,
     <<"  ",
       "{\"entities\": [{\"id\": \"theft\"}, {\"id\": \"intent\"}], \"relationships\": [{\"source\": \"theft\", \"target\": \"intent\", \"type\": \"REQUIRES\"}]}",
       "\n">>,
     <<"I cannot help with that.">>,
     <<"{\"entities\": [{\"id\": \"theft\"">>,
     <<"{\"entities\": [}">>,
     <<"} {">>,
     <<"">>,
     <<"{\"entities\": [{\"id\": \"theft\", \"type\": \"Crime\", \"name\": \"Theft\"}], \"relationships\": []}",
       " and {}">>}

\* json.loads: the value of a document, JSONDecodeError for any other text
json_loads(cs) ==
    IF \E i \in 1..Len(JsonDocuments) : Chars(JsonDocuments[i].text) = cs
    THEN Return(JsonDocuments[CHOOSE i \in 1..Len(JsonDocuments) :
                                  Chars(JsonDocuments[i].text) = cs].value)
    ELSE Raise("JSONDecodeError")

RECURSIVE lstrip(_)
lstrip(cs) ==
    IF cs # <<>> /\ Head(cs) \in Whitespace THEN lstrip(Tail(cs)) ELSE cs

RECURSIVE rstrip(_)
rstrip(cs) ==
    IF cs # <<>> /\ cs[Len(cs)] \in Whitespace THEN rstrip(SubSeq(cs, 1, Len(cs) - 1)) ELSE cs

\* str.strip()
strip(cs) == rstrip(lstrip(cs))

startswith(cs, prefix) ==
    Len(cs) >= Len(prefix) /\ SubSeq(cs, 1, Len(prefix)) = prefix

endswith(cs, suffix) ==
    Len(cs) >= Len(suffix) /\ SubSeq(cs, Len(cs) - Len(suffix) + 1, Len(cs)) = suffix

\* cs[n:] and cs[:-n]
DropFirst(cs, n) == SubSeq(cs, n + 1, Len(cs))

DropLast(cs, n) == SubSeq(cs, 1, Len(cs) - n)

\* str.find and str.rfind of one character: an index from 0, or -1
find(cs, c) ==
    IF \E i \in 1..Len(cs) : cs[i] = c
    THEN (CHOOSE i \in 1..Len(cs) : cs[i] = c /\ \A j \in 1..(i - 1) : cs[j] # c) - 1
    ELSE -1

rfind(cs, c) ==
    IF \E i \in 1..Len(cs) : cs[i] = c
    THEN (CHOOSE i \in 1..Len(cs) : cs[i] = c /\ \A j \in (i + 1)..Len(cs) : cs[j] # c) - 1
    ELSE -1

Fence == Chars("(fence)")

FenceJson == Chars("(fence)") \o Chars("json")

\* lines 122-129
CleanResponse(response_text) ==
    LET stripped == strip(response_text)
        opened == IF startswith(stripped, FenceJson) THEN strip(DropFirst(stripped, 7))
                  ELSE IF startswith(stripped, Fence) THEN strip(DropFirst(stripped, 3))
                  ELSE stripped
    IN  IF endswith(opened, Fence) THEN strip(DropLast(opened, 3)) ELSE opened

\* lines 131-139
ExtractJson(response_text) ==
    LET json_start == find(response_text, "{")
        json_end == rfind(response_text, "}") + 1
    IN  IF json_start # -1 /\ json_end > json_start
        THEN json_loads(SubSeq(response_text, json_start + 1, json_end))
        ELSE Return(EmptyShape)

\* What the inference service does during one call of the extractor:
\* text_generation raises or answers with a text; chat_completion raises,
\* answers without choices, or answers with a choice whose message content is
\* a text or None, or with a choice that has no message and is printed
TextGenerations ==
    {[raises |-> TRUE, text |-> <<>>]}
    \cup {[raises |-> FALSE, text |-> text] : text \in ResponseTexts}

ChatCompletions ==
    {[kind |-> kind, content |-> <<>>] : kind \in {"raises", "no_choices", "message_none"}}
    \cup {[kind |-> kind, content |-> text] :
             kind \in {"message", "choice"}, text \in ResponseTexts}

NotCalled == [kind |-> "not called", content |-> <<>>]

\* llm_client is None without HUGGINGFACE_API_KEY, lines 22-28; a call that is
\* not reached has no outcome
LlmEnvironments ==
    {[llm_client |-> FALSE, text_generation |-> [raises |-> TRUE, text |-> <<>>],
      chat_completion |-> NotCalled]}
    \cup {[llm_client |-> TRUE, text_generation |-> text_generation,
           chat_completion |-> NotCalled] :
             text_generation \in {tg \in TextGenerations : ~tg.raises}}
    \cup {[llm_client |-> TRUE, text_generation |-> [raises |-> TRUE, text |-> <<>>],
           chat_completion |-> chat_completion] : chat_completion \in ChatCompletions}

\* lines 95-139: the body of the outer try
TryBody(env) ==
    IF ~env.text_generation.raises
    THEN [outcome |-> ExtractJson(CleanResponse(TextOf(env.text_generation.text))),
          chat_attempted |-> FALSE]
    ELSE [outcome |->
             CASE env.chat_completion.kind = "raises" -> Raise("Exception")
               [] env.chat_completion.kind = "no_choices" -> Return(EmptyShape)
               [] env.chat_completion.kind = "message_none" -> Raise("AttributeError")
               [] OTHER -> ExtractJson(CleanResponse(TextOf(env.chat_completion.content))),
          chat_attempted |-> TRUE]

\* an exception leaves the function
Propagated(outcome) == outcome

\* lines 141-142: except Exception
OuterExcept(outcome) == IF outcome.kind = "raise" THEN Return(EmptyShape) ELSE outcome

extract_entities_llm(env) ==
    IF ~env.llm_client
    THEN [outcome |-> Return(EmptyShape), chat_attempted |-> FALSE]
    ELSE [outcome |-> OuterExcept(TryBody(env).outcome),
          chat_attempted |-> TryBody(env).chat_attempted]

\* A call of extract_entities_llm on a chunk of source_file, and the merge of
\* what it returned as ingest_file does it, lines 288-293
ExtractEntitiesLlm ==
    /\ ingests < MaxExtractions
    /\ \E env \in LlmEnvironments, source_file \in SourceFiles :
          \E run \in {extract_entities_llm(env)} :
              /\ result' = [call |-> "extract_entities_llm", env |-> env,
                            source_file |-> source_file, outcome |-> run.outcome,
                            chat_attempted |-> run.chat_attempted]
              /\ graph' = IF run.outcome.kind = "return" /\ HasContent(run.outcome.value)
                          THEN add_to_graph(graph, run.outcome.value.entities,
                                            run.outcome.value.relationships, source_file)
                          ELSE graph
    /\ ingests' = ingests + 1
    /\ UNCHANGED <<graph_ingestion, prev, last_call, pkl_file, json_file, retrieval_graph,
                   traversal, response, pc, request, graph_copy>>

NextExtractor == ExtractEntitiesLlm

SpecExtractor == Init /\ [][NextExtractor]_vars

\* the text the extractor reads: the answer of text_generation, or of
\* chat_completion after text_generation raised
ReadText(env) ==
    IF ~env.text_generation.raises THEN env.text_generation.text
    ELSE env.chat_completion.content

\* no JSON document occurs in the text
Unparsable(text) ==
    \A i \in 1..Len(JsonDocuments) : ~Contains(TextOf(text), Chars(JsonDocuments[i].text))

\* no client, both calls failed, no choices, or no parsable JSON in the answer
ExtractionFails(env) ==
    \/ ~env.llm_client
    \/ env.text_generation.raises
          /\ env.chat_completion.kind \in {"raises", "no_choices", "message_none"}
    \/ Unparsable(ReadText(env))

\* C20: extract_entities_llm never raises; without a client, when
\* text-generation and the chat-completion fallback both fail, when the
\* response has no choices, or when the response text is not parsable JSON,
\* it returns {entities: [], relationships: []}; and chat-completion is
\* attempted only after text-generation failed.
C20_ExtractorNeverRaises ==
    result.call = "extract_entities_llm"
        => /\ result.outcome.kind = "return"
           /\ ExtractionFails(result.env) => result.outcome.value = EmptyShape
           /\ result.chat_attempted
                 => (result.env.llm_client /\ result.env.text_generation.raises)

\* after an extraction that was merged, text_generation raised and the chat
\* answer held braces around text that json.loads rejects
C20_Witness ==
    /\ result.call = "extract_entities_llm"
    /\ NodeIds(graph) # {}
    /\ result.env.llm_client
    /\ result.env.text_generation.raises
    /\ result.env.chat_completion = [kind |-> "message", content |-> <<"{\"entities\": [}">>]
    /\ result.chat_attempted
    /\ result.outcome = Return(EmptyShape)

(***************************************************************************)
(* A process that dies inside save_graph, graph_ingestion.py:431-473, and  *)
(* the process started afterwards.  save_graph writes the snapshot in      *)
(* place: open(graph_file, "wb") on line 449 empties the file and          *)
(* pickle.dump on line 450 fills it; no temporary file is written and      *)
(* renamed.  The mirror is written the same way on lines 472-473.          *)
(***************************************************************************)
\* where in save_graph the process dies: in the conversion loops (436-447),
\* after open() of the snapshot (449), inside pickle.dump (450), between the
\* two files (after 450), inside json.dump (472-473)
CrashPoints == {"before_open", "after_open", "during_dump", "after_dump", "during_json"}

\* the snapshot the dead process leaves behind
CrashedPkl(file, c, point) ==
    CASE point = "before_open" -> file
      [] point \in {"after_open", "during_dump"} -> Truncated(file)
      [] OTHER -> PickleDump(c)

\* the mirror the dead process leaves behind; open(json_file, "w") has emptied it
CrashedJson(file, point) ==
    IF point = "during_json" THEN [exists |-> TRUE, nodes |-> <<>>, edges |-> <<>>] ELSE file

\* POST /graph/ingest-file whose process dies inside save_graph: the memory
\* of the process, the graph and the graph_ingestion object, is gone
CrashInSaveGraph ==
    \E i \in 1..Len(ApiDocuments), file_order \in FileOrders, point \in CrashPoints :
        /\ ingests < MaxRequests
        /\ graph_ingestion = "GraphIngestion"
        /\ ingests' = ingests + 1
        /\ pkl_file' = CrashedPkl(pkl_file,
                           SaveSnapshot(ingest_file(graph, ApiDocuments[i].extraction_results,
                                                    ApiDocuments[i].source_file),
                                        file_order).graph_copy,
                           point)
        /\ json_file' = CrashedJson(json_file, point)
        /\ graph' = EmptyGraph
        /\ graph_ingestion' = "None"
        /\ response' = [handler |-> "crash", status |-> 0]
        /\ UNCHANGED <<result, prev, last_call, retrieval_graph, traversal, pc, request,
                       graph_copy>>

\* a request served by a process that is alive
ServedIngestFile == response.handler # "crash" /\ IngestFileGraph

\* the process started after a crash, or restarted
StartProcess == InitializeSystem

\* a GraphQuerySystem built by any process
LoadForQuery == QueryGraph

NextCrash ==
    \/ ServedIngestFile
    \/ CrashInSaveGraph
    \/ StartProcess
    \/ LoadForQuery

SpecCrash == Init /\ [][NextCrash]_vars

\* the complete snapshots a save of the graph g merged with one document writes
NewSnapshots(g) ==
    {PickleDump(ConvertedCopy(ingest_file(g, ApiDocuments[i].extraction_results,
                                          ApiDocuments[i].source_file), file_order)) :
        i \in 1..Len(ApiDocuments), file_order \in FileOrders}

CrashStep == response'.handler = "crash" /\ ingests' = ingests + 1

LoadStep == response'.handler = "startup" /\ graph_ingestion' = "GraphIngestion"

(***************************************************************************)
(* C21.  Snapshot writes are all-or-nothing per file: when the process     *)
(* dies at any point of save_graph, the binary snapshot it leaves is the   *)
(* complete previous one or the complete new one, never a partly written   *)
(* one; and what a load returns is what the binary snapshot holds,         *)
(* whatever the JSON mirror holds.                                         *)
(***************************************************************************)
C21_AllOrNothing ==
    [][/\ CrashStep => pkl_file' \in {pkl_file} \cup NewSnapshots(graph)
       /\ LoadStep => graph' = ingestion_load_graph(EmptyGraph, pkl_file)]_vars

\* the part of C21 the code keeps: a load reads the binary snapshot only, also
\* when the mirror is older than the snapshot or was left empty by a crash
C21_LoadReadsSnapshotOnly ==
    (response.handler = "startup" /\ graph_ingestion = "GraphIngestion" /\ pkl_file.exists)
        => /\ SameAttributes(graph, Unpickled(pkl_file))
           /\ SameAttributes(retrieval_load_graph(pkl_file), graph)

\* a load after a crash between the two files: the snapshot is new, the mirror
\* is not its mirror
C21_StaleMirrorLoaded ==
    /\ response.handler = "startup"
    /\ graph_ingestion = "GraphIngestion"
    /\ pkl_file.exists
    /\ json_file # JsonDump(pkl_file.graph)

\* no entry of the list occurs twice
NoRepeats(q) == \A i, j \in 1..Len(q) : q[i] = q[j] => i = j

\* the latest call names an edge that the graph already held
ResuppliesEdge(call, g) ==
    \E i \in 1..Len(call.relationships) :
        /\ RelPair(call.relationships[i]) \in Edges(g)

(***************************************************************************)
(* C23.  The graph is additive-only under merges: no add_to_graph call     *)
(* removes a node or an edge, so the node set and the edge set only grow   *)
(* along any sequence of merges, and there is at most one edge record per  *)
(* ordered (source, target) pair.                                          *)
(***************************************************************************)
C23_AdditiveOnly ==
    /\ NodeIds(prev) \subseteq NodeIds(graph)
    /\ Edges(prev) \subseteq Edges(graph)
    /\ NoRepeats(graph.node_order) /\ Range(graph.node_order) = NodeIds(graph)
    /\ NoRepeats(graph.edge_order) /\ Range(graph.edge_order) = Edges(graph)

\* a second or third merge that supplied an edge the graph already held, on
\* a graph it also extended
C23_Witness ==
    /\ ingests >= 2
    /\ ResuppliesEdge(last_call, prev)
    /\ NodeIds(prev) # NodeIds(graph)

\* the three attributes add_to_graph gives a node it creates from an entity
IdentityKeys == {"entity_type", "entity_name", "source_files"}

\* the node carries entity_type, entity_name and a non-empty source_files
CarriesIdentity(props) ==
    /\ IdentityKeys \subseteq DOMAIN props
    /\ SourceFilesOf(props) # {}

(***************************************************************************)
(* C24.  Every node of the graph carries entity_type, entity_name and a    *)
(* non-empty source_files set after any sequence of merges, including a    *)
(* node that first entered the graph only as the endpoint of a             *)
(* relationship and was described by an entity in a later batch.           *)
(***************************************************************************)
C24_NodesCarryIdentity ==
    \A n \in NodeIds(graph) : CarriesIdentity(graph.node[n])

\* the part of C24 the code keeps: a node that the latest call created from
\* an entity carries the three attributes, and a node that an entity of the
\* latest call describes has the call's source_file among its source_files
C24_EntityNodesCarryIdentity ==
    \A n \in EntityIds(last_call) :
        /\ n \notin NodeIds(prev) => CarriesIdentity(graph.node[n])
        /\ last_call.source_file \in SourceFilesOf(graph.node[n])

\* a node that entered as the endpoint of a relationship and was described by
\* an entity of the latest call: it has source_files and no entity_type
C24_EndpointDescribedLater ==
    \E n \in EntityIds(last_call) \cap NodeIds(prev) :
        /\ DOMAIN prev.node[n] = {}
        /\ "source_files" \in DOMAIN graph.node[n]
        /\ "entity_type" \notin DOMAIN graph.node[n]

\* ids the traversal recorded at depth k; the start entity is the one at depth 0
AtDepth(tr, k) ==
    IF k = 0 THEN {tr.entity}
    ELSE {tr.related[i].entity_id : i \in {j \in 1..Len(tr.related) : tr.related[j].depth = k}}

\* types of the edges from a node at depth k to n that pass the type filter
OutgoingTypesInto(g, tr, k, n) ==
    {EdgeRelType(g, u, n) :
        u \in {v \in AtDepth(tr, k) :
                  has_edge(g, v, n) /\ Passes(tr.relationship_types, EdgeRelType(g, v, n))}}

\* types of the edges from n to a node at depth k that pass the type filter
IncomingTypesFrom(g, tr, k, n) ==
    {EdgeRelType(g, n, u) :
        u \in {v \in AtDepth(tr, k) :
                  has_edge(g, n, v) /\ Passes(tr.relationship_types, EdgeRelType(g, n, v))}}

Marked(types) == {"reverse_" \o t : t \in types}

(***************************************************************************)
(* C25.  In traverse_from_entity each level processes outgoing edges       *)
(* before incoming edges, and reverse-direction discoveries carry the      *)
(* reverse_ marker: a node at depth k+1 that is the target of an outgoing  *)
(* edge from some depth-k node is recorded with the unmarked relationship  *)
(* type, and is marked reverse_<type> only when it is reachable from depth *)
(* k solely through incoming edges.                                        *)
(***************************************************************************)
C25_OutgoingBeforeIncoming ==
    traversal.found =>
        \A i \in 1..Len(traversal.related) :
            LET e == traversal.related[i]
                out == OutgoingTypesInto(retrieval_graph, traversal, e.depth - 1, e.entity_id)
                inc == IncomingTypesFrom(retrieval_graph, traversal, e.depth - 1, e.entity_id)
            IN  IF out # {} THEN e.relationship \in out
                ELSE e.relationship \in Marked(inc)

\* the part of C25 the code keeps: the order is outgoing before incoming for
\* each node taken from the queue, not for each level.  Every discovery is
\* recorded through an edge to or from a node one level up and marked by the
\* direction of that edge, and a target of an outgoing edge of the start
\* entity is never marked.
C25_OutgoingFirstPerNode ==
    traversal.found =>
        \A i \in 1..Len(traversal.related) :
            LET e == traversal.related[i]
                out == OutgoingTypesInto(retrieval_graph, traversal, e.depth - 1, e.entity_id)
                inc == IncomingTypesFrom(retrieval_graph, traversal, e.depth - 1, e.entity_id)
            IN  /\ e.relationship \in out \cup Marked(inc)
                /\ (e.depth = 1 /\ out # {}) => e.relationship \in out

\* a node recorded with the marker although a node one level up has an edge to it
C25_MarkedDespiteOutgoing ==
    /\ traversal.found
    /\ \E i \in 1..Len(traversal.related) :
          LET e == traversal.related[i]
          IN  /\ e.depth = 2
              /\ OutgoingTypesInto(retrieval_graph, traversal, 1, e.entity_id) # {}
              /\ e.relationship \in
                    Marked(IncomingTypesFrom(retrieval_graph, traversal, 1, e.entity_id))

\* the ids of the matches of all concepts, in the order query_graph collects them
MergedIds(g, concepts) ==
    LET matched == MatchedForConcepts(g, concepts, CHOOSE file_order \in FileOrders : TRUE)
    IN  [i \in 1..Len(matched) |-> matched[i].id]

\* position of the first occurrence of id in the list
FirstSeen(ids, id) == CHOOSE i \in 1..Len(ids) : ids[i] = id /\ \A j \in 1..(i - 1) : ids[j] # id

Smaller(a, b) == IF a < b THEN a ELSE b

(***************************************************************************)
(* C26.  Query expansion: query_graph merges the matches of all extracted  *)
(* concepts, keeps the first occurrence of each id in first-seen order,    *)
(* returns at most 10 matched_entities with pairwise distinct ids, and     *)
(* expands exactly the first min(5, number of distinct matches) of them,   *)
(* so related_info[i].entity is matched_entities[i] for every i.           *)
(***************************************************************************)
C26_QueryExpansion ==
    result.call = "query_graph" =>
        LET ids == MergedIds(retrieval_graph, result.concepts)
            matched_entities == result.returned.matched_entities
            related_info == result.returned.related_info
            kept == {matched_entities[i].id : i \in 1..Len(matched_entities)}
        IN  /\ Len(matched_entities) = Smaller(MaxMatched, Cardinality(Range(ids)))
            /\ kept \subseteq Range(ids)
            /\ \A i, j \in 1..Len(matched_entities) :
                   i < j => FirstSeen(ids, matched_entities[i].id)
                               < FirstSeen(ids, matched_entities[j].id)
            /\ \A id \in Range(ids) \ kept :
                   \A i \in 1..Len(matched_entities) :
                       FirstSeen(ids, matched_entities[i].id) < FirstSeen(ids, id)
            /\ Len(related_info) = Smaller(TopEntities, Cardinality(Range(ids)))
            /\ \A i \in 1..Len(related_info) : related_info[i].entity = matched_entities[i]

\* a query whose concepts match eleven entities, one of them twice: ten are
\* returned and five are expanded
C26_Witness ==
    /\ result.call = "query_graph"
    /\ Cardinality(Range(MergedIds(retrieval_graph, result.concepts))) > MaxMatched
    /\ Len(MergedIds(retrieval_graph, result.concepts))
          > Cardinality(Range(MergedIds(retrieval_graph, result.concepts)))
    /\ Len(result.returned.matched_entities) = MaxMatched
    /\ Len(result.returned.related_info) = TopEntities

(***************************************************************************)
(* GraphIngestion.ingest_file on whole documents, graph_ingestion.py:      *)
(* 275-305, with the rule-based extractor.  load_document (lines 51-58)    *)
(* cuts a document into chunks of at most 2000 characters at paragraph and *)
(* line ends; a document is the sequence of its chunks, and each line      *)
(* stands for a passage long enough for the cut to fall where it does.     *)
(***************************************************************************)
MaxDocuments == 2

Documents ==
    << << <<LineSection4, LineBlank, LineReq41, LineReq42>> >>,
       << <<LineSection4, LineReq41>>, <<LineReq42>> >>,
       << <<LineReq41>> >>,
       << <<LineDash41, LineReq42>> >>,
       << <<LineReq41Short>>, <<LineSection4, LineReq42>> >>,
       << <<LineSection4>>, <<LineBlank>>, <<LineReq42>> >> >>

\* lines 283-295: the extractor runs on each chunk by itself
IngestDocument ==
    /\ ingests < MaxDocuments
    /\ \E i \in 1..Len(Documents), source_file \in SourceFiles :
           LET chunks == Documents[i]
               extraction_results ==
                   [c \in 1..Len(chunks) |->
                        extract_entities_rule_based(chunks[c], source_file)]
           IN  /\ graph' = ingest_file(graph, extraction_results, source_file)
               /\ prev' = graph
               /\ ingests' = ingests + 1
               /\ result' = [call |-> "ingest_file", chunks |-> chunks,
                             source_file |-> source_file,
                             extraction_results |-> extraction_results]
               /\ UNCHANGED <<graph_ingestion, last_call, pkl_file, json_file,
                              retrieval_graph, traversal, response, pc, request, graph_copy>>

NextDocuments == IngestDocument

SpecDocuments == Init /\ [][NextDocuments]_vars

\* positions <<chunk, line>> of the lines of a document, and their order
Positions(chunks) ==
    UNION {{<<c, l>> : l \in 1..Len(chunks[c])} : c \in 1..Len(chunks)}

Before(p, q) == p[1] < q[1] \/ (p[1] = q[1] /\ p[2] < q[2])

LineAt(chunks, p) == chunks[p[1]][p[2]]

IsHeader(ln) == ln.line # "" /\ ln.section_num # ""

IsRequirement(ln) == ln.line # "" /\ ln.req_num # ""

\* positions of the section headers among `within` that precede position p
HeadersBefore(chunks, within, p) ==
    {q \in within : Before(q, p) /\ IsHeader(LineAt(chunks, q))}

\* the latest of a non-empty set of positions
Latest(S) == CHOOSE q \in S : \A r \in S : r = q \/ Before(r, q)

\* the CONTAINS relationships the extractor returned for the document
ContainsPairs(extraction_results) ==
    UNION {{RelPair(extraction_results[c].relationships[k]) :
              k \in {j \in 1..Len(extraction_results[c].relationships) :
                        RelType(extraction_results[c].relationships[j]) = "CONTAINS"}} :
           c \in 1..Len(extraction_results)}

\* the requirement line at position p is linked to the latest header among
\* `headers`, and to no section when there is none
LinkedTo(call, g, p, headers) ==
    LET req_id == ReqId(LineAt(call.chunks, p).req_num)
        links == {pair \in ContainsPairs(call.extraction_results) : pair[2] = req_id}
    IN  IF headers = {} THEN links = {}
        ELSE LET section_id == SectionId(LineAt(call.chunks, Latest(headers)).section_num)
             IN  /\ <<section_id, req_id>> \in links
                 /\ has_edge(g, section_id, req_id)

(***************************************************************************)
(* C27.  Rule-based extraction links every numbered requirement line to    *)
(* the current section: a requirement line that follows a section header   *)
(* in the document gets a CONTAINS edge from the most recent preceding     *)
(* section header to the requirement node, and a requirement line with no  *)
(* preceding section header gets no CONTAINS edge.                         *)
(***************************************************************************)
C27_LinkedToCurrentSection ==
    result.call = "ingest_file" =>
        \A p \in Positions(result.chunks) :
            IsRequirement(LineAt(result.chunks, p))
                => LinkedTo(result, graph, p,
                            HeadersBefore(result.chunks, Positions(result.chunks), p))

\* the part of C27 the code keeps: current_section starts afresh with every
\* chunk (line 150) and is set before the requirement pattern is tried on the
\* same line, so a requirement line is linked to the latest header of its own
\* chunk up to and including the line itself
C27_LinkedWithinChunk ==
    result.call = "ingest_file" =>
        \A p \in Positions(result.chunks) :
            IsRequirement(LineAt(result.chunks, p))
                => LET own == {q \in Positions(result.chunks) : q[1] = p[1]}
                       upto == HeadersBefore(result.chunks, own, <<p[1], p[2] + 1>>)
                   IN  IF upto = {}
                       THEN \A link \in ContainsPairs(<<result.extraction_results[p[1]]>>) :
                                link[2] # ReqId(LineAt(result.chunks, p).req_num)
                       ELSE <<SectionId(LineAt(result.chunks, Latest(upto)).section_num),
                              ReqId(LineAt(result.chunks, p).req_num)>>
                                \in ContainsPairs(<<result.extraction_results[p[1]]>>)

\* a document whose header and requirement fell into different chunks
C27_HeaderInEarlierChunk ==
    /\ result.call = "ingest_file"
    /\ \E p \in Positions(result.chunks) :
          /\ IsRequirement(LineAt(result.chunks, p))
          /\ HeadersBefore(result.chunks, Positions(result.chunks), p) # {}
          /\ \A q \in HeadersBefore(result.chunks, Positions(result.chunks), p) : q[1] < p[1]

\* a step in which one of the lookups returns
LookupStep == NoLookupYet /\ (traversal' # NoTraversal \/ result' # NoResult)

(***************************************************************************)
(* C28.  Query operations are read-only: find_related_entities,            *)
(* get_entity_relationships, traverse_from_entity, find_paths and          *)
(* query_graph leave the node set, the edge set and every property of the  *)
(* graph unchanged, for known and unknown ids alike; only add_to_graph     *)
(* (and load) change the graph.                                            *)
(***************************************************************************)
C28_LookupsReadOnly ==
    [][LookupStep => /\ NodeIds(retrieval_graph') = NodeIds(retrieval_graph)
                     /\ Edges(retrieval_graph') = Edges(retrieval_graph)
                     /\ SameAttributes(retrieval_graph', retrieval_graph)
                     /\ retrieval_graph' = retrieval_graph
                     /\ graph' = graph]_vars

\* a lookup of an id that is not in the graph has returned, on a graph that
\* has nodes and edges
C28_Witness ==
    /\ result.call = "get_entity_relationships"
    /\ ~has_node(retrieval_graph, result.entity_id)
    /\ Edges(retrieval_graph) # {}

(***************************************************************************)
(* GraphIngestion.ingest_folder, graph_ingestion.py:306-336, file by file. *)
(* A folder is the sequence os.listdir returns.  ingest_file raises when   *)
(* load_document does (lines 61-62), before anything is merged, or in the  *)
(* loop over chunks when add_to_graph meets an extraction result of the    *)
(* wrong shape, after the chunks before it were merged.                    *)
(***************************************************************************)
MaxFolders == 2

FolderFile(filename, document, raises, merged_before_raise) ==
    [filename |-> filename, extraction_results |-> document.extraction_results,
     raises |-> raises, merged_before_raise |-> merged_before_raise]

Folders ==
    << << FolderFile("file1.txt", ApiDocuments[1], FALSE, 0),
          FolderFile("file2.txt", ApiDocuments[3], FALSE, 0) >>,
       << FolderFile("file1.txt", ApiDocuments[1], TRUE, 0),
          FolderFile("file2.txt", ApiDocuments[3], FALSE, 0) >>,
       << FolderFile("file2.txt", ApiDocuments[3], TRUE, 1),
          FolderFile("file1.txt", ApiDocuments[1], FALSE, 0) >>,
       << FolderFile("file1.txt", ApiDocuments[1], FALSE, 0),
          FolderFile("notes.pdf", ApiDocuments[2], FALSE, 0),
          FolderFile("file2.txt", ApiDocuments[3], TRUE, 1) >>,
       << FolderFile("file1.txt", ApiDocuments[1], TRUE, 0) >> >>

\* filename.endswith('.txt'), line 316; the file names of the model have a
\* three-letter extension
EndsWithTxt(filename) == filename \in {"file1.txt", "file2.txt"}

\* the loop state of a call that has not started
NoFolderCall ==
    [call |-> "ingest_folder", files |-> <<>>, remaining |-> <<>>, results |-> <<>>,
     position |-> "idle", saves |-> 0]

\* the exception of ingest_file leaves the loop: no try around line 318
FileStepUncaught(st, g, file) ==
    IF ~EndsWithTxt(file.filename) THEN [graph |-> g, call |-> [st EXCEPT !.remaining = Tail(@)]]
    ELSE IF file.raises
         THEN [graph |-> ingest_file(g, SubSeq(file.extraction_results, 1,
                                               file.merged_before_raise), file.filename),
               call |-> [st EXCEPT !.remaining = <<>>, !.position = "raised"]]
         ELSE [graph |-> ingest_file(g, file.extraction_results, file.filename),
               call |-> [st EXCEPT !.remaining = Tail(@),
                                   !.results = Append(@, [file |-> file.filename,
                                                          error |-> FALSE])]]

\* lines 313-324: one iteration of the loop over the folder
FileStep(st, g, file) ==
    IF ~EndsWithTxt(file.filename) THEN [graph |-> g, call |-> [st EXCEPT !.remaining = Tail(@)]]
    ELSE IF file.raises
         THEN [graph |-> ingest_file(g, SubSeq(file.extraction_results, 1,
                                               file.merged_before_raise), file.filename),
               call |-> [st EXCEPT !.remaining = Tail(@),
                                   !.results = Append(@, [file |-> file.filename,
                                                          error |-> TRUE])]]
         ELSE [graph |-> ingest_file(g, file.extraction_results, file.filename),
               call |-> [st EXCEPT !.remaining = Tail(@),
                                   !.results = Append(@, [file |-> file.filename,
                                                          error |-> FALSE])]]

FolderIdle == result = NoResult \/ (result.call = "ingest_folder" /\ result.position # "loop")

\* POST /graph/ingest-folder reaches ingest_folder for a folder that exists
StartIngestFolder ==
    /\ FolderIdle
    /\ ingests < MaxFolders
    /\ graph_ingestion = "GraphIngestion"
    /\ \E i \in 1..Len(Folders) :
           result' = [NoFolderCall EXCEPT !.files = Folders[i], !.remaining = Folders[i],
                                          !.position = "loop"]
    /\ ingests' = ingests + 1
    /\ UNCHANGED <<graph, prev, last_call, pkl_file, json_file, retrieval_graph, traversal,
                   response, pc, request, graph_copy, graph_ingestion>>

\* the next file of the folder
IngestFolderFile ==
    /\ result # NoResult
    /\ result.call = "ingest_folder" /\ result.position = "loop"
    /\ result.remaining # <<>>
    /\ graph' = FileStep(result, graph, Head(result.remaining)).graph
    /\ result' = FileStep(result, graph, Head(result.remaining)).call
    /\ prev' = graph
    /\ UNCHANGED <<last_call, ingests, pkl_file, json_file, retrieval_graph, traversal,
                   response, pc, request, graph_copy, graph_ingestion>>

\* line 327 and the return: save_graph after the loop
SaveAfterFolder ==
    /\ result # NoResult
    /\ result.call = "ingest_folder" /\ result.position = "loop"
    /\ result.remaining = <<>>
    /\ \E file_order \in FileOrders, outcome \in SaveOutcomes :
           /\ SaveGraph(graph, file_order, outcome)
           /\ result' = [result EXCEPT !.position = IF outcome = "ok" THEN "returned"
                                                    ELSE "raised",
                                       !.saves = @ + 1]
           /\ Responded("ingest-folder", SaveStatus(outcome))
    /\ UNCHANGED <<prev, last_call, ingests, retrieval_graph, traversal, pc, request,
                   graph_copy, graph_ingestion>>

NextFolder ==
    \/ StartIngestFolder
    \/ IngestFolderFile
    \/ SaveAfterFolder

SpecFolder == Init /\ [][NextFolder]_vars

\* the .txt files of a folder, in the order of the listing
TxtFiles(files) == SelectSeq(files, LAMBDA file : EndsWithTxt(file.filename))

\* every entity and every relationship that the extractor returned for the
\* file is in g, the nodes with the file among their source_files
Contributed(file, g) ==
    \A c \in 1..Len(file.extraction_results) :
        LET call == [entities |-> file.extraction_results[c].entities,
                     relationships |-> file.extraction_results[c].relationships,
                     source_file |-> file.filename]
        IN  /\ \A n \in EntityIds(call) :
                   has_node(g, n) /\ file.filename \in SourceFilesOf(g.node[n])
            /\ \A i \in Supplied(call) :
                   has_edge(g, RelPair(call.relationships[i])[1],
                            RelPair(call.relationships[i])[2])

(***************************************************************************)
(* C29.  In ingest_folder a file whose ingestion raises does not stop the  *)
(* batch: the failure is recorded as an error entry for that file, every   *)
(* other .txt file of the folder is still merged, and the graph is saved   *)
(* exactly once after the last file, so the snapshot holds the             *)
(* contributions of all files that succeeded.                              *)
(***************************************************************************)
C29_FolderBatchContinues ==
    /\ (result # NoResult /\ result.call = "ingest_folder" /\ result.position = "loop")
          => result.saves = 0
    \* the call ends raising only in save_graph, after the whole listing
    /\ (result # NoResult /\ result.call = "ingest_folder" /\ result.position = "raised")
          => /\ result.saves = 1
             /\ Len(result.results) = Len(TxtFiles(result.files))
    /\ (result # NoResult /\ result.call = "ingest_folder" /\ result.position = "returned")
          => LET txt == TxtFiles(result.files)
             IN  /\ result.saves = 1
                 /\ Len(result.results) = Len(txt)
                 /\ \A k \in 1..Len(txt) :
                        /\ result.results[k].file = txt[k].filename
                        /\ result.results[k].error = txt[k].raises
                        /\ ~txt[k].raises
                              => /\ Contributed(txt[k], graph)
                                 /\ Contributed(txt[k], retrieval_load_graph(pkl_file))
                 /\ SameAttributes(retrieval_load_graph(pkl_file), graph)

\* a folder call has returned whose first file raised and whose second file
\* was merged and saved
C29_Witness ==
    /\ result # NoResult
    /\ result.call = "ingest_folder" /\ result.position = "returned"
    /\ Len(result.results) = 2
    /\ result.results[1].error /\ ~result.results[2].error
    /\ NodeIds(retrieval_load_graph(pkl_file)) # {}

\* the ids query_graph keeps, in order, for one listing of the concepts
DistinctIds(g, concepts) ==
    LET ids == MergedIds(g, concepts)
    IN  SelectSeq([i \in 1..Len(ids) |-> [id |-> ids[i], first |-> FirstSeen(ids, ids[i]) = i,
                                          at |-> i]],
                  LAMBDA entry : entry.first)

KeptIds(g, concepts) ==
    LET kept == Take(DistinctIds(g, concepts), MaxMatched)
    IN  [i \in 1..Len(kept) |-> kept[i].id]

ExpandedIds(g, concepts) == Take(KeptIds(g, concepts), TopEntities)

(***************************************************************************)
(* C30.  query_graph is deterministic: the same graph and the same         *)
(* question yield the same matched_entities in the same order and the same *)
(* expanded entities, whatever order the deduplicated concept set is       *)
(* iterated in before being capped at 10.                                  *)
(***************************************************************************)
C30_SameAnswerInEveryOrder ==
    result.call = "query_graph" =>
        \A concepts \in extract_concepts(result.returned.question) :
            /\ KeptIds(retrieval_graph, concepts)
                  = KeptIds(retrieval_graph, result.concepts)
            /\ ExpandedIds(retrieval_graph, concepts)
                  = ExpandedIds(retrieval_graph, result.concepts)

\* What holds of the listings: the answer is the one computed from the
\* listing that was returned, and while the distinct matches of a question
\* fit the limits, every listing of its concepts gives the same matched
\* entities and the same expanded entities up to their order.
C30_SameEntitiesWithinLimits ==
    result.call = "query_graph" =>
        /\ [i \in 1..Len(result.returned.matched_entities)
               |-> result.returned.matched_entities[i].id]
              = KeptIds(retrieval_graph, result.concepts)
        /\ [i \in 1..Len(result.returned.related_info)
               |-> result.returned.related_info[i].entity.id]
              = ExpandedIds(retrieval_graph, result.concepts)
        /\ \A concepts \in extract_concepts(result.returned.question) :
               LET all == Range(MergedIds(retrieval_graph, result.concepts))
               IN  /\ Range(MergedIds(retrieval_graph, concepts)) = all
                   /\ Cardinality(all) <= MaxMatched
                         => Range(KeptIds(retrieval_graph, concepts)) = all
                   /\ Cardinality(all) <= TopEntities
                         => Range(ExpandedIds(retrieval_graph, concepts)) = all

\* two listings of the concepts of one question expand different entities
C30_ListingChangesExpansion ==
    /\ result.call = "query_graph"
    /\ \E concepts \in extract_concepts(result.returned.question) :
           Range(ExpandedIds(retrieval_graph, concepts))
              # Range(ExpandedIds(retrieval_graph, result.concepts))

NextRetrieval ==
    \/ TraverseFromEntity
    \/ FindRelatedEntities
    \/ GetEntityRelationships
    \/ FindPaths
    \/ RetrievalQueryGraph
    \/ AnswerQuestion

SpecRetrieval == InitRetrieval /\ [][NextRetrieval]_vars

====
